---- MODULE Spec2Model ----
(***************************************************************************)
(* Model of the Tokligence Gateway VS Code extension:                      *)
(*   - the process supervisor of src/src/gateway/manager.ts                *)
(*     (startGateway, stopGateway, disposeGateway, downloadBinary and the  *)
(*     child-process event handlers), and                                  *)
(*   - the chat session of src/src/views/chat.ts (the webview message      *)
(*     handler of openChat and streamChat).                                *)
(* Node runs every handler to its next await without interruption, so an   *)
(* action of the model is one such run: from the invocation of a handler,  *)
(* or from the resumption of an await, to the next await or return.        *)
(***************************************************************************)
EXTENDS Integers, Sequences, FiniteSets, TLC

\* ------------------------------------------------------------------ bounds
\* concurrent invocations of startGateway (command handler, activation,
\* the restart of setWorkMode)
MaxStarts == 2
\* child processes spawned in one behaviour
MaxProcs == 2

Tasks == 1..MaxStarts
Pids == 1..MaxProcs

VARIABLES
  \* ---- manager.ts
  gatewayProcess,   \* the module-level handle: a pid, or 0 for undefined
  proc,             \* pid -> "unborn" | "live" | "signalled" | "failed" | "exited"
  startConsent,     \* globalState 'tokligence.binaryStartConsent'
  downloadConsent,  \* globalState 'tokligence.binaryDownloadConsent'
  cfgCustomPath,    \* cfg.binaryPath is set (non-blank)
  cfgAutoDownload,  \* cfg.autoDownloadBinary
  customExec,       \* the configured binaryPath passes access(X_OK)
  canonical,        \* the default managed path: "absent" | "exec"
  spc,              \* task -> position of its startGateway invocation
  ret,              \* the value startGateway returned in the last step, or "none"
  granted,          \* task -> the user or a persisted decision allowed this start
  deactivated,      \* deactivate() has run
  status,           \* what getGatewayStatus returned in the last step, with the
                    \* answer of its health probe, or NoStatus
  health,           \* what testConnection returned and showed in the last
                    \* step, with the answer of its probe, or NoHealth
  answer,           \* the answer the consent prompt that resolved in the last
                    \* step got, or NoAnswer (recorded under SpecConsent)
  spawned,          \* task -> the process its startGateway spawned and waits
                    \* the grace interval for, or 0 (recorded under SpecGrace)
  stopped           \* stopGateway has returned and startGateway has not been
                    \* invoked since (recorded under SpecGrace)

gvars == <<gatewayProcess, proc, startConsent, downloadConsent,
           cfgCustomPath, cfgAutoDownload, customExec, canonical,
           spc, ret, granted, deactivated, status, health, answer, spawned,
           stopped>>

VARIABLES
  \* ---- chat.ts
  history,            \* the conversation: records [role, content, by]; by is
                      \* the send that pushed the entry (0 for the system entry)
  currentController,  \* the AbortController it holds, named by the send that
                      \* created it, or 0 for undefined
  rpc,                \* send -> "unused" | "secrets" | "fetch" | "read" | "post" | "done"
  streaming,          \* send -> cfg.useStreaming as that send read it
  acc,                \* send -> the local acc of the streaming branch
  emitted,            \* send -> the fragments posted as delta messages
  cancelAt,           \* send -> a cancel was handled while the send was
                      \*         "pending" (before its request) or "inflight"
  lastPost,           \* the message posted to the webview in the last step
  systemPrompt,       \* cfg.systemPrompt of the current configuration
  cleared,            \* the last step handled a clear message
  timer,              \* send -> the timeout of its streamChat call is armed
  issued,             \* the HTTP request issued in the last step: the send
                      \* that issued it and the messages of its body
  blank               \* the last step handled a send message whose text is
                      \* blank (recorded under SpecBlank)

VARIABLES
  \* ---- chat.ts, streamChat: the reading of one streamed response
  events,      \* the data payloads of the events the server sends, in order
  unread,      \* the bytes of the response body not read yet
  undecoded,   \* the bytes the TextDecoder holds back: the start of a
               \* character whose end has not arrived
  buffer,      \* the parser's characters of the line that is not complete
  eventData,   \* the parser's data field of the event that is not complete
  fragments,   \* the texts onDelta was called with, in order
  sse          \* "idle" | "reading" (in the read loop) | "ended"

svars == <<events, unread, undecoded, buffer, eventData, fragments, sse>>

VARIABLES
  \* ---- manager.ts, downloadBinary: the selection of the release asset
  assets,      \* the names of the assets the release lists, in order
  platform,    \* process.platform
  arch,        \* process.arch
  resolved     \* what the selection came to: an asset, or the error thrown

dvars == <<assets, platform, arch, resolved>>

cvars == <<history, currentController, rpc, streaming, acc, emitted,
           cancelAt, lastPost, systemPrompt, cleared, timer, issued, blank,
           svars>>

VARIABLES
  \* ---- unnamed/part_000, the single-file variant of the extension
  child,       \* the module-level handle: a pid, or 0 for undefined
  children,    \* pid -> [st: "unborn" | "live" | "exited", killed: child.killed]
  lpc,         \* task -> position of its startLocalGateway invocation
  lconsent,    \* globalState 'tokligence.binaryStartConsent'
  lexec,       \* the resolved binary path passes access(X_OK)
  lauto,       \* cfg.autoDownloadBinary
  shown        \* the message shown in the last step, or "none"

lvars == <<child, children, lpc, lconsent, lexec, lauto, shown>>

vars == <<gvars, cvars, dvars, lvars>>

Picks == {"Allow once", "Always allow", "Cancel", "none"}

\* ChildProcess.killed: kill() delivered the signal to a process that had not
\* exited. The handle never refers to a process after its exit, so the flag
\* is read only before it.
killed(p) == proc[p] = "signalled"

\* manager.ts:25-27
isGatewayRunning == gatewayProcess # 0 /\ ~killed(gatewayProcess)

\* manager.ts:48-50 and the access(binPath, X_OK) of line 54
ResolvedExec == IF cfgCustomPath THEN customExec ELSE canonical = "exec"

\* the error event of a failed spawn is emitted on the next tick, before any
\* other handler runs
NoPendingTick == \A p \in Pids : proc[p] # "failed"

\* a process the supervisor spawned that neither exited nor was signalled
Live == {p \in Pids : proc[p] = "live"}

Unborn == {p \in Pids : proc[p] = "unborn"}

\* the configurations and installations a session starts from: the managed
\* binary installed or not, auto-download on or off, a configured binaryPath
\* that is executable or not
Configs ==
  { [custom |-> FALSE, customExec |-> FALSE, canonical |-> "exec",   auto |-> TRUE],
    [custom |-> FALSE, customExec |-> FALSE, canonical |-> "absent", auto |-> TRUE],
    [custom |-> FALSE, customExec |-> FALSE, canonical |-> "absent", auto |-> FALSE],
    [custom |-> TRUE,  customExec |-> FALSE, canonical |-> "absent", auto |-> TRUE],
    [custom |-> TRUE,  customExec |-> TRUE,  canonical |-> "absent", auto |-> FALSE] }

\* no getGatewayStatus returned in the last step
NoStatus == [called |-> FALSE, answered |-> FALSE, code |-> 0, running |-> FALSE]

\* what the GET of /health comes to: no answer (connection refused, the
\* timeout of 2000 ms), or an answer with a status code
HealthAnswers ==
  {[answered |-> FALSE, code |-> 0]} \cup
  {[answered |-> TRUE, code |-> c] : c \in {200, 299, 404, 503}}

\* the default validateStatus of axios: the promise resolves for these
\* answers and rejects for all others
Resolves(a) == a.answered /\ a.code >= 200 /\ a.code < 300

\* no testConnection returned in the last step
NoHealth == [called |-> FALSE, answered |-> FALSE, code |-> 0,
             returned |-> FALSE, shown |-> "none", reported |-> 0]

\* no consent prompt resolved in the last step
NoAnswer == "unasked"

GInit ==
  /\ status = NoStatus
  /\ health = NoHealth
  /\ answer = NoAnswer
  /\ spawned = [t \in Tasks |-> 0]
  /\ stopped = FALSE
  /\ gatewayProcess = 0
  /\ proc = [p \in Pids |-> "unborn"]
  /\ startConsent = FALSE
  /\ downloadConsent = FALSE
  /\ \E c \in Configs :
       /\ cfgCustomPath = c.custom
       /\ cfgAutoDownload = c.auto
       /\ customExec = c.customExec
       /\ canonical = c.canonical
  /\ spc = [t \in Tasks |-> "idle"]
  /\ ret = "none"
  /\ granted = [t \in Tasks |-> FALSE]
  /\ deactivated = FALSE

\* startGateway goes on to its next await: position pc, nothing returned
Suspend(t, pc) ==
  /\ spc' = [spc EXCEPT ![t] = pc]
  /\ ret' = "none"

\* return from startGateway with value v; the invocation's locals are gone
Return(t, v) ==
  /\ spc' = [spc EXCEPT ![t] = "idle"]
  /\ ret' = v
  /\ granted' = [granted EXCEPT ![t] = FALSE]

\* a start that goes to the consent check whatever the handle says
StartGatewayUnchecked(t) ==
  /\ UNCHANGED <<cvars, dvars, lvars>>
  /\ status' = NoStatus
  /\ health' = NoHealth
  /\ answer' = NoAnswer
  /\ UNCHANGED spawned
  /\ ~deactivated
  /\ NoPendingTick
  /\ spc[t] = "idle" /\ \A u \in Tasks : spc[u] = "idle" => t <= u
  /\ IF startConsent
       THEN /\ Suspend(t, "access")
            /\ granted' = [granted EXCEPT ![t] = TRUE]
       ELSE /\ Suspend(t, "prompt")
            /\ UNCHANGED granted
  /\ UNCHANGED <<gatewayProcess, proc, startConsent, downloadConsent,
                 cfgCustomPath, cfgAutoDownload, customExec, canonical, deactivated>>

\* manager.ts:29-45: invocation of startGateway up to its first await
StartGateway(t) ==
  /\ UNCHANGED <<cvars, dvars, lvars>>
  /\ status' = NoStatus
  /\ health' = NoHealth
  /\ answer' = NoAnswer
  /\ UNCHANGED spawned
  /\ ~deactivated
  /\ NoPendingTick
  /\ spc[t] = "idle" /\ \A u \in Tasks : spc[u] = "idle" => t <= u
  /\ IF isGatewayRunning
       THEN Return(t, "true")
       ELSE IF startConsent
              THEN /\ Suspend(t, "access")
                   /\ granted' = [granted EXCEPT ![t] = TRUE]
              ELSE /\ Suspend(t, "prompt")
                   /\ UNCHANGED granted
  /\ UNCHANGED <<gatewayProcess, proc, startConsent, downloadConsent,
                 cfgCustomPath, cfgAutoDownload, customExec, canonical, deactivated>>

\* the user's answer grants the action
Allowed(pick) == pick \in {"Allow once", "Always allow"}

\* a consent check that lets a dismissed prompt through
DeclinedOnlyOnCancel(pick) == pick = "Cancel"

\* manager.ts:43 and 161: the prompt was cancelled or dismissed
Declined(pick) == pick = "Cancel" \/ pick = "none"

\* a prompt that persists the consent for every answer that allows
StartPromptPersistsAllow(t, pick) ==
  /\ UNCHANGED <<cvars, dvars, lvars>>
  /\ status' = NoStatus
  /\ health' = NoHealth
  /\ UNCHANGED <<spawned, stopped>>
  /\ NoPendingTick
  /\ spc[t] = "prompt"
  /\ IF Declined(pick)
       THEN /\ Return(t, "false")
            /\ UNCHANGED startConsent
       ELSE /\ Suspend(t, "access")
            /\ granted' = [granted EXCEPT ![t] = Allowed(pick)]
            /\ startConsent' = TRUE
  /\ UNCHANGED <<gatewayProcess, proc, downloadConsent, cfgCustomPath,
                 cfgAutoDownload, customExec, canonical, deactivated>>

\* manager.ts:38-54: the modal prompt of startGateway resolves
StartPrompt(t, pick) ==
  /\ UNCHANGED <<cvars, dvars, lvars>>
  /\ status' = NoStatus
  /\ health' = NoHealth
  /\ UNCHANGED <<spawned, stopped>>
  /\ NoPendingTick
  /\ spc[t] = "prompt"
  /\ IF Declined(pick)
       THEN /\ Return(t, "false")
            /\ UNCHANGED startConsent
       ELSE /\ Suspend(t, "access")
            /\ granted' = [granted EXCEPT ![t] = Allowed(pick)]
            /\ startConsent' = (startConsent \/ pick = "Always allow")
  /\ UNCHANGED <<gatewayProcess, proc, downloadConsent, cfgCustomPath,
                 cfgAutoDownload, customExec, canonical, deactivated>>

\* a download that takes the consent to start for its own
AccessCheckedStartConsentCovers(t) ==
  /\ UNCHANGED <<cvars, dvars, lvars>>
  /\ status' = NoStatus
  /\ health' = NoHealth
  /\ answer' = NoAnswer
  /\ UNCHANGED <<spawned, stopped>>
  /\ NoPendingTick
  /\ spc[t] = "access"
  /\ IF ResolvedExec
       THEN Suspend(t, "mkdir") /\ UNCHANGED granted
       ELSE IF cfgAutoDownload
              THEN /\ Suspend(t, IF downloadConsent \/ startConsent THEN "release" ELSE "dlprompt")
                   /\ UNCHANGED granted
              ELSE Return(t, "false")
  /\ UNCHANGED <<gatewayProcess, proc, startConsent, downloadConsent,
                 cfgCustomPath, cfgAutoDownload, customExec, canonical, deactivated>>

\* manager.ts:53-66 and 152-163: access(binPath, X_OK) settles
AccessChecked(t) ==
  /\ UNCHANGED <<cvars, dvars, lvars>>
  /\ status' = NoStatus
  /\ health' = NoHealth
  /\ answer' = NoAnswer
  /\ UNCHANGED <<spawned, stopped>>
  /\ NoPendingTick
  /\ spc[t] = "access"
  /\ IF ResolvedExec
       THEN Suspend(t, "mkdir") /\ UNCHANGED granted
       ELSE IF cfgAutoDownload
              THEN /\ Suspend(t, IF downloadConsent THEN "release" ELSE "dlprompt")
                   /\ UNCHANGED granted
              ELSE Return(t, "false")
  /\ UNCHANGED <<gatewayProcess, proc, startConsent, downloadConsent,
                 cfgCustomPath, cfgAutoDownload, customExec, canonical, deactivated>>

\* manager.ts:156-163: the modal prompt of downloadBinary resolves
DownloadPrompt(t, pick) ==
  /\ UNCHANGED <<cvars, dvars, lvars>>
  /\ status' = NoStatus
  /\ health' = NoHealth
  /\ UNCHANGED <<spawned, stopped>>
  /\ NoPendingTick
  /\ spc[t] = "dlprompt"
  /\ IF Declined(pick)
       THEN /\ Return(t, "false")
            /\ UNCHANGED downloadConsent
       ELSE /\ Suspend(t, "release")
            /\ downloadConsent' = (downloadConsent \/ pick = "Always allow")
            /\ UNCHANGED granted
  /\ UNCHANGED <<gatewayProcess, proc, startConsent, cfgCustomPath,
                 cfgAutoDownload, customExec, canonical, deactivated>>

ReleaseOutcomes == {"error", "noassets", "nomatch", "ok"}

\* manager.ts:176-209: the release lookup settles and an asset is selected
ReleaseFetched(t, outcome) ==
  /\ UNCHANGED <<cvars, dvars, lvars>>
  /\ status' = NoStatus
  /\ health' = NoHealth
  /\ answer' = NoAnswer
  /\ UNCHANGED <<spawned, stopped>>
  /\ NoPendingTick
  /\ spc[t] = "release"
  /\ IF outcome = "ok"
       THEN Suspend(t, "download") /\ UNCHANGED granted
       ELSE Return(t, "false")
  /\ UNCHANGED <<gatewayProcess, proc, startConsent, downloadConsent,
                 cfgCustomPath, cfgAutoDownload, customExec, canonical, deactivated>>

\* a start that ignores the result of downloadBinary and goes on to spawn
AssetDownloadedResultIgnored(t, ok) ==
  /\ UNCHANGED <<cvars, dvars, lvars>>
  /\ status' = NoStatus
  /\ health' = NoHealth
  /\ answer' = NoAnswer
  /\ UNCHANGED <<spawned, stopped>>
  /\ NoPendingTick
  /\ spc[t] = "download"
  /\ Suspend(t, IF ok THEN "extract" ELSE "mkdir")
  /\ UNCHANGED <<gatewayProcess, proc, startConsent, downloadConsent, granted,
                 cfgCustomPath, cfgAutoDownload, customExec, canonical, deactivated>>

\* manager.ts:212-218: the asset is streamed to the temporary file
AssetDownloaded(t, ok) ==
  /\ UNCHANGED <<cvars, dvars, lvars>>
  /\ status' = NoStatus
  /\ health' = NoHealth
  /\ answer' = NoAnswer
  /\ UNCHANGED <<spawned, stopped>>
  /\ NoPendingTick
  /\ spc[t] = "download"
  /\ IF ok
       THEN Suspend(t, "extract") /\ UNCHANGED granted
       ELSE Return(t, "false")
  /\ UNCHANGED <<gatewayProcess, proc, startConsent, downloadConsent,
                 cfgCustomPath, cfgAutoDownload, customExec, canonical, deactivated>>

\* results of extraction and of the search for the binary: the extraction
\* threw, nothing named tokligence-gateway* was found, the canonical path
\* exists, or another entry with the prefix was adopted
ExtractOutcomes ==
  {"error", "canonical"} \cup (IF canonical = "absent" THEN {"notfound", "adopted"} ELSE {})

\* manager.ts:220-258 and 57-61: extraction, search, chmod, cleanup; on
\* success startGateway resolves the path again and goes on to mkdir
Extracted(t, outcome) ==
  /\ UNCHANGED <<cvars, dvars, lvars>>
  /\ status' = NoStatus
  /\ health' = NoHealth
  /\ answer' = NoAnswer
  /\ UNCHANGED <<spawned, stopped>>
  /\ NoPendingTick
  /\ spc[t] = "extract"
  /\ outcome \in ExtractOutcomes
  /\ IF outcome \in {"canonical", "adopted"}
       THEN /\ Suspend(t, "mkdir")
            /\ canonical' = (IF outcome = "canonical" THEN "exec" ELSE canonical)
            /\ UNCHANGED granted
       ELSE /\ Return(t, "false")
            /\ UNCHANGED canonical
  /\ UNCHANGED <<gatewayProcess, proc, startConsent, downloadConsent,
                 cfgCustomPath, cfgAutoDownload, customExec, deactivated>>

\* manager.ts:103-130: after mkdir, spawn and the registration of the exit
\* and error handlers; a path that cannot be executed makes the spawn fail
Spawn(t, p) ==
  /\ UNCHANGED <<cvars, dvars, lvars>>
  /\ status' = NoStatus
  /\ health' = NoHealth
  /\ answer' = NoAnswer
  /\ UNCHANGED stopped
  /\ NoPendingTick
  /\ spc[t] = "mkdir"
  /\ p \in Unborn /\ \A q \in Unborn : p <= q
  /\ gatewayProcess' = p
  /\ proc' = [proc EXCEPT ![p] = IF ResolvedExec THEN "live" ELSE "failed"]
  /\ Suspend(t, "grace")
  /\ UNCHANGED <<startConsent, downloadConsent, cfgCustomPath, cfgAutoDownload,
                 customExec, canonical, granted, deactivated>>

\* manager.ts:130-139: the grace timer fires and liveness is sampled
GraceElapsed(t) ==
  /\ UNCHANGED <<cvars, dvars, lvars>>
  /\ status' = NoStatus
  /\ health' = NoHealth
  /\ answer' = NoAnswer
  /\ UNCHANGED stopped
  /\ NoPendingTick
  /\ spc[t] = "grace"
  /\ Return(t, IF isGatewayRunning THEN "true" ELSE "false")
  /\ UNCHANGED <<gatewayProcess, proc, startConsent, downloadConsent,
                 cfgCustomPath, cfgAutoDownload, customExec, canonical, deactivated>>

\* an exit handler that spawns the next process in place of the one that
\* exited
ChildExitRestarts(p) ==
  /\ UNCHANGED <<cvars, dvars, lvars>>
  /\ status' = NoStatus
  /\ health' = NoHealth
  /\ answer' = NoAnswer
  /\ UNCHANGED <<spawned, stopped>>
  /\ NoPendingTick
  /\ proc[p] \in {"live", "signalled"}
  /\ \E q \in Unborn :
       /\ \A u \in Unborn : q <= u
       /\ proc' = [proc EXCEPT ![p] = "exited", ![q] = "live"]
       /\ gatewayProcess' = q
  /\ ret' = "none"
  /\ UNCHANGED <<startConsent, downloadConsent, cfgCustomPath, cfgAutoDownload,
                 customExec, canonical, spc, granted, deactivated>>

\* manager.ts:120-123: the exit handler registered on process p
ChildExit(p) ==
  /\ UNCHANGED <<cvars, dvars, lvars>>
  /\ status' = NoStatus
  /\ health' = NoHealth
  /\ answer' = NoAnswer
  /\ UNCHANGED <<spawned, stopped>>
  /\ NoPendingTick
  /\ proc[p] \in {"live", "signalled"}
  /\ proc' = [proc EXCEPT ![p] = "exited"]
  /\ gatewayProcess' = 0
  /\ ret' = "none"
  /\ UNCHANGED <<startConsent, downloadConsent, cfgCustomPath, cfgAutoDownload,
                 customExec, canonical, spc, granted, deactivated>>

\* manager.ts:124-127: the error handler registered on process p
ChildError(p) ==
  /\ UNCHANGED <<cvars, dvars, lvars>>
  /\ status' = NoStatus
  /\ health' = NoHealth
  /\ answer' = NoAnswer
  /\ UNCHANGED <<spawned, stopped>>
  /\ proc[p] = "failed"
  /\ proc' = [proc EXCEPT ![p] = "exited"]
  /\ gatewayProcess' = 0
  /\ ret' = "none"
  /\ UNCHANGED <<startConsent, downloadConsent, cfgCustomPath, cfgAutoDownload,
                 customExec, canonical, spc, granted, deactivated>>

\* gatewayProcess.kill() of manager.ts:144 and 322
Kill(p) == proc' = [proc EXCEPT ![p] = "signalled"]

\* a stop that signals the process and keeps the handle
StopKeepsHandle(h, pr) ==
  IF h # 0 /\ pr[h] # "signalled"
    THEN <<h, [pr EXCEPT ![h] = "signalled"]>>
    ELSE <<h, pr>>

\* manager.ts:143-149: what stopGateway makes of the handle h and the
\* processes pr: <<handle, processes>> after it
StopEffect(h, pr) ==
  IF h # 0 /\ pr[h] # "signalled"
    THEN <<0, [pr EXCEPT ![h] = "signalled"]>>
    ELSE <<h, pr>>

\* manager.ts:142-150
StopGateway ==
  /\ UNCHANGED <<cvars, dvars, lvars>>
  /\ status' = NoStatus
  /\ health' = NoHealth
  /\ answer' = NoAnswer
  /\ UNCHANGED spawned
  /\ ~deactivated
  /\ NoPendingTick
  /\ gatewayProcess' = StopEffect(gatewayProcess, proc)[1]
  /\ proc' = StopEffect(gatewayProcess, proc)[2]
  /\ ret' = "none"
  /\ UNCHANGED <<startConsent, downloadConsent, cfgCustomPath, cfgAutoDownload,
                 customExec, canonical, spc, granted, deactivated>>

\* manager.ts:320-324, called by deactivate (extension.ts:102-105)
DisposeGateway ==
  /\ UNCHANGED <<cvars, dvars, lvars>>
  /\ status' = NoStatus
  /\ health' = NoHealth
  /\ answer' = NoAnswer
  /\ UNCHANGED <<spawned, stopped>>
  /\ ~deactivated
  /\ NoPendingTick
  /\ deactivated' = TRUE
  /\ IF gatewayProcess # 0 /\ ~killed(gatewayProcess)
       THEN Kill(gatewayProcess)
       ELSE UNCHANGED proc
  /\ ret' = "none"
  /\ UNCHANGED <<gatewayProcess, startConsent, downloadConsent, cfgCustomPath,
                 cfgAutoDownload, customExec, canonical, spc, granted>>

\* a status that counts an answering gateway as running only when the
\* supervisor owns a process
GetGatewayStatusOwnedOnly(a) ==
  /\ UNCHANGED <<cvars, dvars, lvars>>
  /\ health' = NoHealth
  /\ answer' = NoAnswer
  /\ UNCHANGED <<spawned, stopped>>
  /\ ~deactivated
  /\ NoPendingTick
  /\ status' = [called |-> TRUE, answered |-> a.answered, code |-> a.code,
                running |-> isGatewayRunning]
  /\ ret' = "none"
  /\ UNCHANGED <<gatewayProcess, proc, startConsent, downloadConsent, cfgCustomPath,
                 cfgAutoDownload, customExec, canonical, spc, granted, deactivated>>

\* manager.ts:286-318: getGatewayStatus, from the settling of its probe (the
\* only await) to its return; the call itself reads the configuration only.
\* A resolved probe gives status >= 200 && status < 300; a rejected one, the
\* liveness of the handle at that time.
GetGatewayStatus(a) ==
  /\ UNCHANGED <<cvars, dvars, lvars>>
  /\ health' = NoHealth
  /\ answer' = NoAnswer
  /\ UNCHANGED <<spawned, stopped>>
  /\ ~deactivated
  /\ NoPendingTick
  /\ status' = [called |-> TRUE, answered |-> a.answered, code |-> a.code,
                running |-> IF Resolves(a)
                              THEN a.code >= 200 /\ a.code < 300
                              ELSE isGatewayRunning]
  /\ ret' = "none"
  /\ UNCHANGED <<gatewayProcess, proc, startConsent, downloadConsent, cfgCustomPath,
                 cfgAutoDownload, customExec, canonical, spc, granted, deactivated>>

\* what testConnection returns and shows for a probe that was answered
\* with this code, and for one that was not answered
Responded(code) ==
  IF code >= 200 /\ code < 300
    THEN [called |-> TRUE, answered |-> TRUE, code |-> code,
          returned |-> TRUE, shown |-> "OK", reported |-> 0]
    ELSE [called |-> TRUE, answered |-> TRUE, code |-> code,
          returned |-> FALSE, shown |-> "responded", reported |-> code]

NotReachable(a) ==
  [called |-> TRUE, answered |-> a.answered, code |-> a.code,
   returned |-> FALSE, shown |-> "not reachable", reported |-> 0]

\* a testConnection whose probe keeps the default validateStatus of axios
TestConnectionDefaultValidate(a) ==
  /\ UNCHANGED <<cvars, dvars, lvars>>
  /\ ~deactivated
  /\ NoPendingTick
  /\ status' = NoStatus
  /\ answer' = NoAnswer
  /\ UNCHANGED <<spawned, stopped>>
  /\ health' = IF Resolves(a) THEN Responded(a.code) ELSE NotReachable(a)
  /\ ret' = "none"
  /\ UNCHANGED <<gatewayProcess, proc, startConsent, downloadConsent, cfgCustomPath,
                 cfgAutoDownload, customExec, canonical, spc, granted, deactivated>>

\* manager.ts:263-284: testConnection, from the settling of its probe (the
\* only await) to its return. With validateStatus: () => true the promise
\* resolves for every answer and rejects when there is none.
TestConnection(a) ==
  /\ UNCHANGED <<cvars, dvars, lvars>>
  /\ ~deactivated
  /\ NoPendingTick
  /\ status' = NoStatus
  /\ answer' = NoAnswer
  /\ UNCHANGED <<spawned, stopped>>
  /\ health' = IF a.answered THEN Responded(a.code) ELSE NotReachable(a)
  /\ ret' = "none"
  /\ UNCHANGED <<gatewayProcess, proc, startConsent, downloadConsent, cfgCustomPath,
                 cfgAutoDownload, customExec, canonical, spc, granted, deactivated>>

GatewayNext ==
  \/ \E t \in Tasks : StartGateway(t) /\ UNCHANGED stopped
  \/ \E t \in Tasks, pick \in Picks : StartPrompt(t, pick) /\ UNCHANGED answer
  \/ \E t \in Tasks : AccessChecked(t)
  \/ \E t \in Tasks, pick \in Picks : DownloadPrompt(t, pick) /\ UNCHANGED answer
  \/ \E t \in Tasks, o \in ReleaseOutcomes : ReleaseFetched(t, o)
  \/ \E t \in Tasks, ok \in BOOLEAN : AssetDownloaded(t, ok)
  \/ \E t \in Tasks, o \in {"error", "notfound", "canonical", "adopted"} : Extracted(t, o)
  \/ \E t \in Tasks, p \in Pids : Spawn(t, p) /\ UNCHANGED spawned
  \/ \E t \in Tasks : GraceElapsed(t) /\ UNCHANGED spawned
  \/ \E p \in Pids : ChildExit(p)
  \/ \E p \in Pids : ChildError(p)
  \/ StopGateway /\ UNCHANGED stopped

\* ------------------------------------------------------------ chat session
\* send messages handled in one behaviour
MaxSends == 2
\* fragments one streaming response delivers
MaxFrags == 2

Reqs == 1..MaxSends

\* a text is a sequence of characters; the k-th fragment of a streamed
\* response: a, bc, a, bc, ...
StreamFragment(k) == IF k % 2 = 1 THEN <<"a">> ELSE <<"b", "c">>
\* the texts of send messages that are not blank
UserTexts == {<<"u">>}
\* cfg.systemPrompt when the session is opened
SystemPrompt == <<"s">>
\* the values the setting takes
SystemPrompts == {<<"s">>, <<"t">>}
\* the body of a buffered 2xx response as axios hands it over (res.data): an
\* object of the shape {choices: [{message: {content}}]}, a string (the body
\* was not JSON), or an object of another shape
ResponseBodies ==
  {[kind |-> "choices", content |-> c] : c \in {<<"h", "i">>, <<>>}}
    \cup {[kind |-> "string", content |-> c] : c \in {<<"r">>, <<>>}}
    \cup {[kind |-> "object", content |-> <<>>]}
\* the body the gateway answers a chat completion with
Bodies == {[kind |-> "choices", content |-> <<"h", "i">>]}
NoData == [kind |-> "none", content |-> <<>>]

\* chat.ts:70: JSON.stringify(res.data), the whole body as text
Stringify(data) ==
  IF data.kind = "choices"
    THEN <<"{", "choices", ":", "\"">> \o data.content \o <<"\"", "}">>
    ELSE <<"{", "}">>

\* chat.ts:65-72: the text taken from the body: the content of the first
\* choice when it is truthy, else the body itself when it is a string, else
\* the body serialized
Content(data) ==
  IF data.kind = "choices" /\ data.content # <<>> THEN data.content
  ELSE IF data.kind = "string" THEN data.content
  ELSE Stringify(data)

\* a message posted to the webview; data is the response body a 'resp'
\* message was made from
NoPost == [type |-> "none", req |-> 0, text |-> <<>>, data |-> NoData]
Post(type, r, text) == [type |-> type, req |-> r, text |-> text, data |-> NoData]

\* no request was issued
NoRequest == [req |-> 0, messages |-> <<>>]

SystemEntry == [role |-> "system", content |-> systemPrompt, by |-> 0]

\* the sends whose HTTP request is issued and not settled
InFlight == {r \in Reqs : rpc[r] \in {"fetch", "read", "post"}}

\* the next unused send
Fresh(r) == rpc[r] = "unused" /\ \A q \in Reqs : rpc[q] = "unused" => r <= q

RECURSIVE Concat(_)
\* the concatenation of a sequence of texts
Concat(fs) == IF fs = <<>> THEN <<>> ELSE Head(fs) \o Concat(Tail(fs))

\* f with the entries of the sends in S set to v
Reset(f, S, v) == [q \in Reqs |-> IF q \in S THEN v ELSE f[q]]

\* no streamed response is being read
StreamIdle ==
  /\ events = <<>>
  /\ unread = <<>>
  /\ undecoded = <<>>
  /\ buffer = <<>>
  /\ eventData = <<>>
  /\ fragments = <<>>
  /\ sse = "idle"

\* chat.ts:16-20: the session as openChat leaves it
SessionInit ==
  /\ systemPrompt = SystemPrompt
  /\ cleared = FALSE
  /\ history = <<SystemEntry>>
  /\ currentController = 0
  /\ rpc = [r \in Reqs |-> "unused"]
  /\ streaming = [r \in Reqs |-> FALSE]
  /\ acc = [r \in Reqs |-> <<>>]
  /\ emitted = [r \in Reqs |-> <<>>]
  /\ cancelAt = [r \in Reqs |-> "none"]
  /\ lastPost = NoPost
  /\ timer = [r \in Reqs |-> FALSE]
  /\ issued = NoRequest
  /\ blank = FALSE

\* chat.ts:16-20
CInit ==
  /\ StreamIdle
  /\ SessionInit

\* a streamChat that leaves its timeout armed when it returns
ReturnedTimerArmed(S) ==
  /\ rpc' = Reset(rpc, S, "done")
  /\ streaming' = Reset(streaming, S, FALSE)
  /\ acc' = Reset(acc, S, <<>>)
  /\ emitted' = Reset(emitted, S, <<>>)
  /\ UNCHANGED timer

\* chat.ts:77-79 and 139-141: the handler invocations of the sends in S have
\* returned: their locals (cfg, acc, controller) are gone, and the finally of
\* streamChat has cleared the timeout
Returned(S) ==
  /\ rpc' = Reset(rpc, S, "done")
  /\ streaming' = Reset(streaming, S, FALSE)
  /\ acc' = Reset(acc, S, <<>>)
  /\ emitted' = Reset(emitted, S, <<>>)
  /\ timer' = Reset(timer, S, FALSE)

\* the controller c (named by the send that created it) belongs to a
\* request in flight: streamChat has called fetch and has not returned
Abortable(c) == c # 0 /\ rpc[c] \in {"fetch", "read"}

\* the characters String.prototype.trim removes
Whitespace == {" ", "\t", "\n"}

RECURSIVE TrimStart(_)
TrimStart(text) ==
  IF text # <<>> /\ Head(text) \in Whitespace THEN TrimStart(Tail(text)) ELSE text

RECURSIVE TrimEnd(_)
TrimEnd(text) ==
  IF text # <<>> /\ text[Len(text)] \in Whitespace
    THEN TrimEnd(SubSeq(text, 1, Len(text) - 1))
    ELSE text

\* String.prototype.trim
Trim(text) == TrimEnd(TrimStart(text))

\* texts of send messages: the blank ones, and one that is not blank and
\* starts with whitespace
Texts == {<<>>, <<" ">>, <<" ", "\n">>, <<" ", "u">>}

\* a handler that tests the text after the abort of the streaming branch
SendBlankAborts(text) ==
  /\ UNCHANGED <<gvars, dvars, lvars, systemPrompt, svars>>
  /\ issued' = NoRequest
  /\ cleared' = FALSE
  /\ Trim(text) = <<>>
  /\ IF Abortable(currentController)
       THEN /\ Returned({currentController})
            /\ lastPost' = Post("error", currentController, <<"superseded">>)
       ELSE /\ lastPost' = NoPost
            /\ UNCHANGED <<rpc, streaming, acc, emitted, timer>>
  /\ UNCHANGED <<history, currentController, cancelAt>>

\* chat.ts:23-25: a send message whose text is blank
SendBlank(text) ==
  /\ Trim(text) = <<>>
  /\ UNCHANGED <<gvars, dvars, lvars, systemPrompt, svars>>
  /\ issued' = NoRequest
  /\ cleared' = FALSE
  /\ lastPost' = NoPost
  /\ UNCHANGED <<history, currentController, rpc, streaming, acc, emitted, cancelAt, timer>>

\* chat.ts:23-39: a send message, up to the await of context.secrets.get
Send(r, text, useStreaming) ==
  /\ UNCHANGED <<gvars, dvars, lvars, systemPrompt, svars>>
  /\ issued' = NoRequest
  /\ cleared' = FALSE
  /\ blank' = FALSE
  /\ Fresh(r)
  /\ Trim(text) # <<>>
  /\ history' = Append(history, [role |-> "user", content |-> text, by |-> r])
  /\ rpc' = [rpc EXCEPT ![r] = "secrets"]
  /\ streaming' = [streaming EXCEPT ![r] = useStreaming]
  /\ lastPost' = NoPost
  /\ UNCHANGED <<currentController, acc, emitted, cancelAt, timer>>

\* chat.ts:77-79 with 139-141: the request of send r rejects; the catch of
\* the handler posts the error and the handler returns
Failed(r, why) ==
  /\ Returned({r})
  /\ cancelAt' = Reset(cancelAt, {r}, "none")
  /\ lastPost' = Post("error", r, why)

\* chat.ts:39-63 and 101-111: secrets.get resolves. The streaming branch
\* aborts the current controller, installs its own and calls fetch; the
\* buffered branch calls axios.post. abort() on the controller of a request
\* in flight rejects its fetch or its pending read, and the rejection runs
\* the catch of that send (chat.ts:77-79) before any other message is
\* handled; on a settled request abort() has no effect.
SecretsResolved(r) ==
  /\ UNCHANGED <<gvars, dvars, lvars, systemPrompt, svars>>
  /\ issued' = [req |-> r, messages |-> history]
  /\ cleared' = FALSE
  /\ blank' = FALSE
  /\ rpc[r] = "secrets"
  /\ IF streaming[r]
       THEN /\ IF Abortable(currentController)
                 THEN /\ rpc' = [Reset(rpc, {currentController}, "done") EXCEPT ![r] = "fetch"]
                      /\ streaming' = Reset(streaming, {currentController}, FALSE)
                      /\ acc' = Reset(acc, {currentController}, <<>>)
                      /\ emitted' = Reset(emitted, {currentController}, <<>>)
                      /\ cancelAt' = Reset(cancelAt, {currentController}, "none")
                      /\ timer' = [Reset(timer, {currentController}, FALSE) EXCEPT ![r] = TRUE]
                      /\ lastPost' = Post("error", currentController, <<"superseded">>)
                 ELSE /\ rpc' = [rpc EXCEPT ![r] = "fetch"]
                      /\ timer' = [timer EXCEPT ![r] = TRUE]
                      /\ lastPost' = NoPost
                      /\ UNCHANGED <<streaming, acc, emitted, cancelAt>>
            /\ currentController' = r
       ELSE /\ rpc' = [rpc EXCEPT ![r] = "post"]
            /\ lastPost' = NoPost
            /\ UNCHANGED <<currentController, streaming, acc, emitted, cancelAt, timer>>
  /\ UNCHANGED history

\* chat.ts:106-117: fetch settles: a response that is OK and has a body, a
\* response that is not ("http"), or a transport error
FetchSettled(r, outcome) ==
  /\ UNCHANGED <<gvars, dvars, lvars, systemPrompt, svars>>
  /\ issued' = NoRequest
  /\ cleared' = FALSE
  /\ blank' = FALSE
  /\ rpc[r] = "fetch"
  /\ IF outcome = "ok"
       THEN /\ rpc' = [rpc EXCEPT ![r] = "read"]
            /\ lastPost' = NoPost
            /\ UNCHANGED <<streaming, acc, emitted, cancelAt, timer>>
       ELSE Failed(r, <<outcome>>)
  /\ UNCHANGED <<history, currentController>>

\* an onDelta that keeps only the last fragment
DeltaOverwrites(r) ==
  LET delta == StreamFragment(Len(emitted[r]) + 1) IN
  /\ UNCHANGED <<gvars, dvars, lvars, systemPrompt, svars>>
  /\ issued' = NoRequest
  /\ cleared' = FALSE
  /\ blank' = FALSE
  /\ rpc[r] = "read"
  /\ Len(emitted[r]) < MaxFrags
  /\ acc' = [acc EXCEPT ![r] = delta]
  /\ emitted' = [emitted EXCEPT ![r] = Append(emitted[r], delta)]
  /\ lastPost' = Post("delta", r, delta)
  /\ UNCHANGED <<history, currentController, rpc, streaming, cancelAt, timer>>

\* chat.ts:52-55 and 119-131: the next event of the stream yields the
\* fragment delta; onDelta accumulates it and posts it
Delta(r) ==
  LET delta == StreamFragment(Len(emitted[r]) + 1) IN
  /\ UNCHANGED <<gvars, dvars, lvars, systemPrompt, svars>>
  /\ issued' = NoRequest
  /\ cleared' = FALSE
  /\ blank' = FALSE
  /\ rpc[r] = "read"
  /\ Len(emitted[r]) < MaxFrags
  /\ acc' = [acc EXCEPT ![r] = acc[r] \o delta]
  /\ emitted' = [emitted EXCEPT ![r] = Append(emitted[r], delta)]
  /\ lastPost' = Post("delta", r, delta)
  /\ UNCHANGED <<history, currentController, rpc, streaming, cancelAt, timer>>

\* chat.ts:57-58 and 133-141: read() reports done; the accumulated text is
\* pushed as the assistant entry and done is posted
StreamEnded(r) ==
  /\ UNCHANGED <<gvars, dvars, lvars, systemPrompt, svars>>
  /\ issued' = NoRequest
  /\ cleared' = FALSE
  /\ blank' = FALSE
  /\ rpc[r] = "read"
  /\ history' = Append(history, [role |-> "assistant", content |-> acc[r], by |-> r])
  /\ Returned({r})
  /\ cancelAt' = Reset(cancelAt, {r}, "none")
  /\ lastPost' = Post("done", r, <<>>)
  /\ UNCHANGED currentController

\* a broken stream whose partial text is pushed before the error is posted
StreamBrokeCommitsPartial(r) ==
  /\ UNCHANGED <<gvars, dvars, lvars, systemPrompt, svars>>
  /\ issued' = NoRequest
  /\ cleared' = FALSE
  /\ blank' = FALSE
  /\ rpc[r] = "read"
  /\ history' = Append(history, [role |-> "assistant", content |-> acc[r], by |-> r])
  /\ Failed(r, <<"transport">>)
  /\ UNCHANGED currentController

\* chat.ts:133-141 and 77-79: read() rejects with a transport error
StreamBroke(r) ==
  /\ UNCHANGED <<gvars, dvars, lvars, systemPrompt, svars>>
  /\ issued' = NoRequest
  /\ cleared' = FALSE
  /\ blank' = FALSE
  /\ rpc[r] = "read"
  /\ Failed(r, <<"transport">>)
  /\ UNCHANGED <<history, currentController>>

\* chat.ts:102 and 77-79: the timeout of the streamChat call of send r
\* fires: its callback aborts the controller of the request; abort() as in
\* SecretsResolved
StreamTimeout(r) ==
  /\ UNCHANGED <<gvars, dvars, lvars, systemPrompt, svars>>
  /\ issued' = NoRequest
  /\ cleared' = FALSE
  /\ blank' = FALSE
  /\ timer[r]
  /\ IF Abortable(r)
       THEN Failed(r, <<"timeout">>)
       ELSE /\ timer' = [timer EXCEPT ![r] = FALSE]
            /\ lastPost' = NoPost
            /\ UNCHANGED <<rpc, streaming, acc, emitted, cancelAt>>
  /\ UNCHANGED <<history, currentController>>

\* chat.ts:60-79: axios.post settles: a 2xx response with this body, or
\* a rejection (status not 2xx, transport error, timeout)
PostSettled(r, outcome, body) ==
  /\ UNCHANGED <<gvars, dvars, lvars, systemPrompt, svars>>
  /\ issued' = NoRequest
  /\ cleared' = FALSE
  /\ blank' = FALSE
  /\ rpc[r] = "post"
  /\ IF outcome = "ok"
       THEN /\ history' = Append(history, [role |-> "assistant", content |-> Content(body), by |-> r])
            /\ Returned({r})
            /\ cancelAt' = Reset(cancelAt, {r}, "none")
            /\ lastPost' = [Post("resp", r, Content(body)) EXCEPT !.data = body]
       ELSE /\ Failed(r, <<outcome>>)
            /\ UNCHANGED history
  /\ UNCHANGED currentController

\* a cancel message was handled while send r was suspended before its request
\* ("pending") or while its request was in flight ("inflight")
Noted(r) ==
  IF rpc[r] \in {"fetch", "read", "post"} THEN "inflight"
  ELSE IF rpc[r] = "secrets" /\ cancelAt[r] = "none" THEN "pending"
  ELSE cancelAt[r]

\* a cancel that ends every request in flight
CancelEndsInFlight ==
  /\ UNCHANGED <<gvars, dvars, lvars, systemPrompt, svars>>
  /\ issued' = NoRequest
  /\ cleared' = FALSE
  /\ blank' = FALSE
  /\ IF currentController # 0
       THEN /\ IF Abortable(currentController)
                 THEN /\ Returned(InFlight)
                      /\ cancelAt' = [r \in Reqs |->
                                        IF r \in InFlight THEN "none" ELSE Noted(r)]
                      /\ lastPost' = Post("error", currentController, <<"cancel">>)
                 ELSE /\ cancelAt' = [r \in Reqs |-> Noted(r)]
                      /\ lastPost' = NoPost
                      /\ UNCHANGED <<rpc, streaming, acc, emitted, timer>>
            /\ currentController' = 0
       ELSE /\ cancelAt' = [r \in Reqs |-> Noted(r)]
            /\ lastPost' = NoPost
            /\ UNCHANGED <<currentController, rpc, streaming, acc, emitted, timer>>
  /\ UNCHANGED history

\* chat.ts:80-84: a cancel message; abort() as in SecretsResolved
Cancel ==
  /\ UNCHANGED <<gvars, dvars, lvars, systemPrompt, svars>>
  /\ issued' = NoRequest
  /\ cleared' = FALSE
  /\ blank' = FALSE
  /\ IF currentController # 0
       THEN /\ IF Abortable(currentController)
                 THEN /\ Returned({currentController})
                      /\ cancelAt' = [r \in Reqs |->
                                        IF r = currentController THEN "none" ELSE Noted(r)]
                      /\ lastPost' = Post("error", currentController, <<"cancel">>)
                 ELSE /\ cancelAt' = [r \in Reqs |-> Noted(r)]
                      /\ lastPost' = NoPost
                      /\ UNCHANGED <<rpc, streaming, acc, emitted, timer>>
            /\ currentController' = 0
       ELSE /\ cancelAt' = [r \in Reqs |-> Noted(r)]
            /\ lastPost' = NoPost
            /\ UNCHANGED <<currentController, rpc, streaming, acc, emitted, timer>>
  /\ UNCHANGED history

\* a clear that empties the history and does not seed it again
ClearWithoutSeed ==
  /\ UNCHANGED <<gvars, dvars, lvars, systemPrompt, svars>>
  /\ issued' = NoRequest
  /\ cleared' = TRUE
  /\ blank' = FALSE
  /\ history' = <<>>
  /\ lastPost' = NoPost
  /\ UNCHANGED <<currentController, rpc, streaming, acc, emitted, cancelAt, timer>>

\* a clear that seeds the history with the prompt the session was opened with
ClearSeedsOpeningPrompt ==
  /\ UNCHANGED <<gvars, dvars, lvars, systemPrompt, svars>>
  /\ issued' = NoRequest
  /\ cleared' = TRUE
  /\ blank' = FALSE
  /\ history' = <<[role |-> "system", content |-> SystemPrompt, by |-> 0]>>
  /\ lastPost' = NoPost
  /\ UNCHANGED <<currentController, rpc, streaming, acc, emitted, cancelAt, timer>>

\* chat.ts:85-88: a clear message
Clear ==
  /\ UNCHANGED <<gvars, dvars, lvars, systemPrompt, svars>>
  /\ issued' = NoRequest
  /\ cleared' = TRUE
  /\ blank' = FALSE
  /\ history' = <<SystemEntry>>
  /\ lastPost' = NoPost
  /\ UNCHANGED <<currentController, rpc, streaming, acc, emitted, cancelAt, timer>>

\* config.ts:49: the user edits the setting tokligence.systemPrompt; getConfig
\* reads the settings anew at every call
SystemPromptChanged(p) ==
  /\ UNCHANGED <<gvars, dvars, lvars, svars>>
  /\ issued' = NoRequest
  /\ p # systemPrompt
  /\ systemPrompt' = p
  /\ cleared' = FALSE
  /\ blank' = FALSE
  /\ lastPost' = NoPost
  /\ UNCHANGED <<history, currentController, rpc, streaming, acc, emitted, cancelAt, timer>>

\* ------------------------------------------- the read loop of streamChat
\* events one streamed response carries
MaxEvents == 2

\* A text is a sequence of characters and a body a sequence of bytes. An
\* ASCII character is one byte, written as the character; the character
\* U+00E9 is the two bytes 0xC3 0xA9.
LF == "\n"
Sentinel == <<"[", "D", "O", "N", "E", "]">>

\* the data payloads a server sends, as bytes: a JSON object with the delta
\* content a, one with the content U+00E9, one without content, the
\* sentinel, a text that is not JSON, a JSON value that is no object, and
\* the empty payload
Payloads ==
  { <<"{", "a", "}">>, <<"{", "0xC3", "0xA9", "}">>, <<"{", "}">>, Sentinel, <<"x">>,
    <<"5">>, <<>> }

RECURSIVE SeqsUpTo(_, _)
\* the sequences of at most n elements of S
SeqsUpTo(S, n) ==
  IF n = 0 THEN {<<>>}
  ELSE LET shorter == SeqsUpTo(S, n - 1)
       IN  shorter \cup {Append(q, x) : q \in shorter, x \in S}

RECURSIVE Wire(_)
\* the body of the response: each event framed as  data: <payload> LF LF
Wire(evs) ==
  IF evs = <<>> THEN <<>>
  ELSE <<"d", "a", "t", "a", ":", " ">> \o Head(evs) \o <<LF, LF>> \o Wire(Tail(evs))

RECURSIVE Utf8(_)
\* chat.ts:118: the TextDecoder on the bytes bs: the characters they encode
\* and the incomplete sequence at their end
Utf8(bs) ==
  IF bs = <<>> THEN [chars |-> <<>>, rest |-> <<>>]
  ELSE IF Head(bs) = "0xC3"
    THEN IF Len(bs) = 1 THEN [chars |-> <<>>, rest |-> bs]
         ELSE IF bs[2] = "0xA9"
           THEN LET d == Utf8(SubSeq(bs, 3, Len(bs)))
                IN  [chars |-> <<"U+00E9">> \o d.chars, rest |-> d.rest]
           ELSE LET d == Utf8(Tail(bs))
                IN  [chars |-> <<"U+FFFD">> \o d.chars, rest |-> d.rest]
  ELSE LET d == Utf8(Tail(bs))
       IN  [chars |-> <<IF Head(bs) = "0xA9" THEN "U+FFFD" ELSE Head(bs)>> \o d.chars,
            rest |-> d.rest]

\* a decode that does not keep the incomplete sequence for the next chunk:
\* decoder.decode(value) without {stream: true}
DecodeEachChunkAlone(held, value) ==
  LET d == Utf8(value)
  IN  [chars |-> d.chars \o [i \in 1..Len(d.rest) |-> "U+FFFD"], rest |-> <<>>]

\* chat.ts:136: decoder.decode(value, {stream: true}) with the bytes held
\* back from the chunks before
Decode(held, value) == Utf8(held \o value)

\* the line is a data field: data, or data:value
IsDataLine(line) ==
  /\ Len(line) >= 4
  /\ SubSeq(line, 1, 4) = <<"d", "a", "t", "a">>
  /\ Len(line) = 4 \/ line[5] = ":"

\* the value of a data line, without the one space that may follow the colon
DataValue(line) ==
  LET v == SubSeq(line, 6, Len(line))
  IN  IF v # <<>> /\ Head(v) = " " THEN Tail(v) ELSE v

RECURSIVE Join(_)
\* the data of an event: its data lines joined by line feeds
Join(lines) ==
  IF Len(lines) = 1 THEN Head(lines)
  ELSE Head(lines) \o <<LF>> \o Join(Tail(lines))

RECURSIVE FeedChars(_, _, _, _)
\* the parser on the characters text, with the incomplete line, the data
\* lines ed of the incomplete event and the events out dispatched so far: a
\* line feed ends a line, a data line adds to the event, an empty line
\* dispatches the event if it has data
FeedChars(text, line, ed, out) ==
  IF text = <<>> THEN [buffer |-> line, eventData |-> ed, dispatched |-> out]
  ELSE IF Head(text) # LF THEN FeedChars(Tail(text), Append(line, Head(text)), ed, out)
  ELSE IF line # <<>>
    THEN FeedChars(Tail(text), <<>>,
                   IF IsDataLine(line) THEN Append(ed, DataValue(line)) ELSE ed, out)
    ELSE FeedChars(Tail(text), <<>>, <<>>,
                   IF ed = <<>> THEN out ELSE Append(out, Join(ed)))

\* chat.ts:119, 137: parser.feed(chunk) of the parser createParser made
Feed(buf, ed, chunk) == FeedChars(chunk, buf, ed, <<>>)

\* JSON.parse(data) does not throw: the payloads { content } stand for
\* {"choices":[{"delta":{"content": content}}]}
IsJson(data) ==
  \/ data = <<"5">>
  \/ /\ Len(data) >= 2 /\ data[1] = "{" /\ data[Len(data)] = "}"
     /\ \A i \in 2..(Len(data) - 1) : data[i] \notin {"{", "}", LF}

\* json?.choices?.[0]?.delta?.content ?? ''
DeltaContent(data) == IF data[1] = "{" THEN SubSeq(data, 2, Len(data) - 1) ELSE <<>>

\* a callback that emits the raw data when the JSON carries no content
OnEventRawWithoutContent(data) ==
  IF data = Sentinel THEN <<>>
  ELSE IF IsJson(data) /\ DeltaContent(data) # <<>> THEN <<DeltaContent(data)>>
  ELSE IF data # <<>> THEN <<data>> ELSE <<>>

\* chat.ts:119-131: the callback of the parser for an event with this data:
\* the fragments onDelta is called with
OnEvent(data) ==
  IF data = Sentinel THEN <<>>
  ELSE IF IsJson(data)
    THEN (IF DeltaContent(data) # <<>> THEN <<DeltaContent(data)>> ELSE <<>>)
    ELSE (IF data # <<>> THEN <<data>> ELSE <<>>)

RECURSIVE Deliver(_)
\* the fragments of the events dispatched, in order
Deliver(datas) ==
  IF datas = <<>> THEN <<>> ELSE OnEvent(Head(datas)) \o Deliver(Tail(datas))

\* chat.ts:133-138: read() gives the next n bytes of the body as one chunk;
\* the chunk is decoded and fed to the parser, whose callback runs for every
\* event the chunk completes
ReadChunk(n) ==
  /\ UNCHANGED <<gvars, dvars, lvars, history, currentController, rpc, streaming, acc, emitted,
                 cancelAt, lastPost, systemPrompt, cleared, timer, issued, blank>>
  /\ sse = "reading"
  /\ n \in 1..Len(unread)
  /\ LET d == Decode(undecoded, SubSeq(unread, 1, n))
         p == Feed(buffer, eventData, d.chars)
     IN  /\ undecoded' = d.rest
         /\ buffer' = p.buffer
         /\ eventData' = p.eventData
         /\ fragments' = fragments \o Deliver(p.dispatched)
  /\ unread' = SubSeq(unread, n + 1, Len(unread))
  /\ UNCHANGED <<events, sse>>

\* chat.ts:134-135: read() reports done and the loop ends
ReadDone ==
  /\ UNCHANGED <<gvars, dvars, lvars, history, currentController, rpc, streaming, acc, emitted,
                 cancelAt, lastPost, systemPrompt, cleared, timer, issued, blank>>
  /\ sse = "reading"
  /\ unread = <<>>
  /\ sse' = "ended"
  /\ UNCHANGED <<events, unread, undecoded, buffer, eventData, fragments>>

SseNext ==
  \/ \E n \in 1..Len(unread) : ReadChunk(n)
  \/ ReadDone

ChatNext ==
  \/ SendBlank(<<" ">>) /\ blank' = FALSE
  \/ \E r \in Reqs, text \in UserTexts, s \in BOOLEAN : Send(r, text, s)
  \/ \E r \in Reqs : SecretsResolved(r)
  \/ \E r \in Reqs, o \in {"ok", "http", "transport"} : FetchSettled(r, o)
  \/ \E r \in Reqs : Delta(r)
  \/ \E r \in Reqs : StreamEnded(r)
  \/ \E r \in Reqs : StreamBroke(r)
  \/ \E r \in Reqs : StreamTimeout(r)
  \/ \E r \in Reqs, o \in {"ok", "http", "transport", "timeout"}, b \in Bodies :
        PostSettled(r, o, b)
  \/ Cancel
  \/ Clear

\* the history of one chat session: sends, the settling of their requests
\* and clears, with the edits of the system prompt setting
SessionNext ==
  \/ \E r \in Reqs, text \in UserTexts, s \in BOOLEAN : Send(r, text, s)
  \/ \E r \in Reqs : SecretsResolved(r)
  \/ \E r \in Reqs, o \in {"ok", "http", "transport"} : FetchSettled(r, o)
  \/ \E r \in Reqs : Delta(r)
  \/ \E r \in Reqs : StreamEnded(r)
  \/ \E r \in Reqs, o \in {"ok", "http", "transport", "timeout"}, b \in Bodies :
        PostSettled(r, o, b)
  \/ Clear
  \/ \E p \in SystemPrompts : SystemPromptChanged(p)

\* ------------------------------------ the selection of the release asset
\* assets one release lists
MaxAssets == 3

\* A name is a sequence of pieces of text, cut where a label or a suffix the
\* code looks for can begin or end: arm64 is the pieces arm and 64, so that
\* it includes the label arm.
Platforms == {"win32", "darwin", "linux"}
Archs == {"x64", "arm64", "arm"}

\* the names of the assets of a release
AssetNames ==
  { <<"gw", "linux", "amd", "64", ".tar", ".gz">>,
    <<"gw", "linux", "amd", "64", ".zip">>,
    <<"gw", "linux", "amd", "64">>,
    <<"gw", "windows", "amd", "64", ".zip">>,
    <<"gw", "Linux", "x86_64", ".tar", ".gz">>,
    <<"gw", "linux", "arm", "64", ".tar", ".gz">>,
    <<"gw", "darwin", "arm", "64", ".zip">>,
    <<"checksums", ".txt">> }

\* config.ts:76-82: platformLabels
OsLabel(p) ==
  IF p = "win32" THEN <<"windows">>
  ELSE IF p = "darwin" THEN <<"darwin">> ELSE <<"linux">>

ArchLabels(a) ==
  IF a = "x64" THEN {<<"amd", "64">>, <<"x86_64">>, <<"x", "64">>}
  ELSE IF a = "arm64" THEN {<<"arm", "64">>, <<"aarch64">>}
  ELSE {<<a>>}

\* String.prototype.toLowerCase
ToLowerCase(name) ==
  [i \in DOMAIN name |-> IF name[i] = "Linux" THEN "linux" ELSE name[i]]

\* String.prototype.includes
Includes(name, part) ==
  \E i \in 0..(Len(name) - Len(part)) : SubSeq(name, i + 1, i + Len(part)) = part

\* String.prototype.endsWith
EndsWith(name, suffix) ==
  /\ Len(name) >= Len(suffix)
  /\ SubSeq(name, Len(name) - Len(suffix) + 1, Len(name)) = suffix

TarGz == <<".tar", ".gz">>
Zip == <<".zip">>

\* a filter that looks for the OS label only
IsCandidateOsOnly(name, p, a) == Includes(ToLowerCase(name), OsLabel(p))

\* manager.ts:184-188: the predicate of the filter
IsCandidate(name, p, a) ==
  /\ Includes(ToLowerCase(name), OsLabel(p))
  /\ \E al \in ArchLabels(a) : Includes(ToLowerCase(name), al)

\* manager.ts:201-205: the score the comparator gives a name
Score(name) ==
  IF EndsWith(ToLowerCase(name), TarGz) THEN 0
  ELSE IF EndsWith(ToLowerCase(name), Zip) THEN 1 ELSE 2

RECURSIVE Insert(_, _)
\* x put into a list ordered by score, after the names that score no more
Insert(sorted, x) ==
  IF sorted = <<>> THEN <<x>>
  ELSE IF Score(x) < Score(Head(sorted)) THEN <<x>> \o sorted
  ELSE <<Head(sorted)>> \o Insert(Tail(sorted), x)

\* a sort that leaves the list as it is
SortKeepsOrder(names) == names

RECURSIVE Sort(_)
\* manager.ts:200-207: Array.prototype.sort with the comparator of the
\* scores; the sort is stable
Sort(names) ==
  IF names = <<>> THEN <<>>
  ELSE Insert(Sort(SubSeq(names, 1, Len(names) - 1)), names[Len(names)])

\* nothing was selected yet
NoResolution == [outcome |-> "none", asset |-> <<>>]

\* manager.ts:178-207: the asset selected from the list of the release, or
\* the error thrown: the release has no assets, or none is a candidate
Preferred(list, p, a) ==
  LET candidates == SelectSeq(list, LAMBDA name : IsCandidate(name, p, a)) IN
  IF list = <<>> THEN [outcome |-> "noassets", asset |-> <<>>]
  ELSE IF candidates = <<>> THEN [outcome |-> "nomatch", asset |-> <<>>]
  ELSE [outcome |-> "ok", asset |-> Sort(candidates)[1]]

\* manager.ts:176-207: the release lookup has answered with the list and
\* the asset is selected
AssetSelected ==
  /\ UNCHANGED <<gvars, cvars, lvars>>
  /\ resolved = NoResolution
  /\ resolved' = Preferred(assets, platform, arch)
  /\ UNCHANGED <<assets, platform, arch>>

\* no release was looked up
DInit ==
  /\ assets = <<>>
  /\ platform = "linux"
  /\ arch = "x64"
  /\ resolved = NoResolution

\* ------------------------------- the single-file variant (unnamed/part_000)
\* part_000:74 and 128: child && !child.killed
childRunning == child # 0 /\ ~children[child].killed

\* part_000:14: nothing was started
LStart ==
  /\ child = 0
  /\ children = [p \in Pids |-> [st |-> "unborn", killed |-> FALSE]]
  /\ lpc = [t \in Tasks |-> "idle"]
  /\ lconsent = FALSE
  /\ shown = "none"

\* the variant with its binary installed and the default settings
LInit == LStart /\ lexec = TRUE /\ lauto = TRUE

\* part_000:73-80: invocation of startLocalGateway up to its first await
StartLocalGateway(t) ==
  /\ UNCHANGED <<gvars, cvars, dvars>>
  /\ lpc[t] = "idle" /\ \A u \in Tasks : lpc[u] = "idle" => t <= u
  /\ IF childRunning
       THEN shown' = "already running" /\ UNCHANGED lpc
       ELSE /\ lpc' = [lpc EXCEPT ![t] = IF lconsent THEN "access" ELSE "prompt"]
            /\ shown' = "none"
  /\ UNCHANGED <<child, children, lconsent, lexec, lauto>>

\* part_000:80-93: the modal prompt resolves
LocalPrompt(t, pick) ==
  /\ UNCHANGED <<gvars, cvars, dvars>>
  /\ lpc[t] = "prompt"
  /\ lpc' = [lpc EXCEPT ![t] = IF Declined(pick) THEN "idle" ELSE "access"]
  /\ lconsent' = (lconsent \/ pick = "Always allow")
  /\ shown' = "none"
  /\ UNCHANGED <<child, children, lexec, lauto>>

\* part_000:92-112: access(binPath, X_OK) settles
LocalAccessChecked(t) ==
  /\ UNCHANGED <<gvars, cvars, dvars>>
  /\ lpc[t] = "access"
  /\ IF lexec
       THEN lpc' = [lpc EXCEPT ![t] = "mkdir"] /\ shown' = "none"
       ELSE IF lauto
              THEN lpc' = [lpc EXCEPT ![t] = "download"] /\ shown' = "none"
              ELSE lpc' = [lpc EXCEPT ![t] = "idle"] /\ shown' = "not found"
  /\ UNCHANGED <<child, children, lconsent, lexec, lauto>>

\* what downloadOrUpdateBinary comes to: it throws, it returns false, it
\* returns true with the resolved path executable, or it returns true with
\* the resolved path as it was
DownloadOutcomes == {"threw", "false", "installed", "elsewhere"}

\* part_000:96-102: downloadOrUpdateBinary settles
LocalDownloaded(t, outcome) ==
  /\ UNCHANGED <<gvars, cvars, dvars>>
  /\ lpc[t] = "download"
  /\ lpc' = [lpc EXCEPT ![t] = IF outcome \in {"installed", "elsewhere"}
                                  THEN "access2" ELSE "idle"]
  /\ lexec' = (lexec \/ outcome = "installed")
  /\ shown' = IF outcome = "threw" THEN "download failed" ELSE "none"
  /\ UNCHANGED <<child, children, lconsent, lauto>>

\* part_000:102-107: the second access(binPath, X_OK) settles
LocalAccessCheckedAgain(t) ==
  /\ UNCHANGED <<gvars, cvars, dvars>>
  /\ lpc[t] = "access2"
  /\ IF lexec
       THEN lpc' = [lpc EXCEPT ![t] = "mkdir"] /\ shown' = "none"
       ELSE lpc' = [lpc EXCEPT ![t] = "idle"] /\ shown' = "still missing"
  /\ UNCHANGED <<child, children, lconsent, lexec, lauto>>

\* part_000:114-125: after mkdir, spawn and the registration of the exit
\* handler
LocalSpawn(t, p) ==
  /\ UNCHANGED <<gvars, cvars, dvars>>
  /\ lpc[t] = "mkdir"
  /\ children[p].st = "unborn"
  /\ \A q \in Pids : children[q].st = "unborn" => p <= q
  /\ child' = p
  /\ children' = [children EXCEPT ![p] = [st |-> "live", killed |-> FALSE]]
  /\ lpc' = [lpc EXCEPT ![t] = "idle"]
  /\ shown' = "started"
  /\ UNCHANGED <<lconsent, lexec, lauto>>

\* part_000:121-123: the exit handler registered on process p writes a line
\* to the output channel
LocalChildExit(p) ==
  /\ UNCHANGED <<gvars, cvars, dvars>>
  /\ children[p].st = "live"
  /\ children' = [children EXCEPT ![p].st = "exited"]
  /\ shown' = "none"
  /\ UNCHANGED <<child, lpc, lconsent, lexec, lauto>>

\* part_000:127-134: stopLocalGateway; kill() sets child.killed when the
\* signal was delivered, which it is not to a process that has exited
StopLocalGateway ==
  /\ UNCHANGED <<gvars, cvars, dvars>>
  /\ IF childRunning
       THEN /\ children' = [children EXCEPT
                              ![child].killed = (children[child].st = "live")]
            /\ shown' = "stopped"
       ELSE /\ UNCHANGED children
            /\ shown' = "not running"
  /\ UNCHANGED <<child, lpc, lconsent, lexec, lauto>>

LocalNext ==
  \/ \E t \in Tasks : StartLocalGateway(t)
  \/ \E t \in Tasks, pick \in Picks : LocalPrompt(t, pick)
  \/ \E t \in Tasks : LocalAccessChecked(t)
  \/ \E t \in Tasks, o \in DownloadOutcomes : LocalDownloaded(t, o)
  \/ \E t \in Tasks : LocalAccessCheckedAgain(t)
  \/ \E t \in Tasks, p \in Pids : LocalSpawn(t, p)
  \/ \E p \in Pids : LocalChildExit(p)
  \/ StopLocalGateway

\* ---------------------------------------------------------- specifications
\* extension.ts:23-100 (activate) and chat.ts:6-20 (openChat)
Init == GInit /\ CInit /\ DInit /\ LInit

\* the supervisor alone: the chat session stays as constructed
SpecGateway == Init /\ [][GatewayNext]_vars

\* the supervisor with the deactivation of the extension
LifecycleNext == GatewayNext \/ DisposeGateway

SpecLifecycle == Init /\ [][LifecycleNext]_vars

\* one chat session alone: the supervisor stays as constructed
ChatInit == Init /\ ~cfgCustomPath /\ cfgAutoDownload /\ canonical = "exec"

SpecChat == ChatInit /\ [][ChatNext]_vars

\* the history of one chat session while the user edits the settings
SpecSession == ChatInit /\ [][SessionNext]_vars

\* the requests of one chat session: sends, the settling of their requests,
\* deadlines and cancels, with the configuration and the history left alone
RequestsNext ==
  \/ \E r \in Reqs, text \in UserTexts, s \in BOOLEAN : Send(r, text, s)
  \/ \E r \in Reqs : SecretsResolved(r)
  \/ \E r \in Reqs, o \in {"ok", "http", "transport"} : FetchSettled(r, o)
  \/ \E r \in Reqs : Delta(r)
  \/ \E r \in Reqs : StreamEnded(r)
  \/ \E r \in Reqs : StreamBroke(r)
  \/ \E r \in Reqs : StreamTimeout(r)
  \/ \E r \in Reqs, o \in {"ok", "http", "transport", "timeout"}, b \in Bodies :
        PostSettled(r, o, b)
  \/ Cancel

SpecRequests == ChatInit /\ [][RequestsNext]_vars

\* the requests of one chat session with the send messages of every text,
\* the blank ones recorded
BlankNext ==
  \/ \E text \in Texts : SendBlank(text) /\ blank' = TRUE
  \/ \E r \in Reqs, text \in Texts, s \in BOOLEAN : Send(r, text, s)
  \/ \E r \in Reqs : SecretsResolved(r)
  \/ \E r \in Reqs, o \in {"ok", "http", "transport"} : FetchSettled(r, o)
  \/ \E r \in Reqs : Delta(r)
  \/ \E r \in Reqs : StreamEnded(r)
  \/ \E r \in Reqs : StreamBroke(r)
  \/ \E r \in Reqs : StreamTimeout(r)
  \/ \E r \in Reqs, o \in {"ok", "http", "transport", "timeout"}, b \in Bodies :
        PostSettled(r, o, b)
  \/ Cancel

SpecBlank == ChatInit /\ [][BlankNext]_vars

\* the buffered path of one chat session, with every shape of response body
BufferedNext ==
  \/ \E r \in Reqs, text \in UserTexts : Send(r, text, FALSE)
  \/ \E r \in Reqs : SecretsResolved(r)
  \/ \E r \in Reqs, o \in {"ok", "http", "transport", "timeout"}, b \in ResponseBodies :
        PostSettled(r, o, b)
  \/ Clear

SpecBuffered == ChatInit /\ [][BufferedNext]_vars

\* the supervisor, with the process each start spawned recorded for the
\* length of its grace interval, and with the stops that no start has
\* followed
GraceNext ==
  \/ \E t \in Tasks : StartGateway(t) /\ stopped' = FALSE
  \/ \E t \in Tasks, pick \in Picks : StartPrompt(t, pick) /\ UNCHANGED answer
  \/ \E t \in Tasks : AccessChecked(t)
  \/ \E t \in Tasks, pick \in Picks : DownloadPrompt(t, pick) /\ UNCHANGED answer
  \/ \E t \in Tasks, o \in ReleaseOutcomes : ReleaseFetched(t, o)
  \/ \E t \in Tasks, ok \in BOOLEAN : AssetDownloaded(t, ok)
  \/ \E t \in Tasks, o \in {"error", "notfound", "canonical", "adopted"} : Extracted(t, o)
  \/ \E t \in Tasks, p \in Pids :
        Spawn(t, p) /\ spawned' = [spawned EXCEPT ![t] = p]
  \/ \E t \in Tasks :
        GraceElapsed(t) /\ spawned' = [spawned EXCEPT ![t] = 0]
  \/ \E p \in Pids : ChildExit(p)
  \/ \E p \in Pids : ChildError(p)
  \/ StopGateway /\ stopped' = TRUE

SpecGrace == Init /\ [][GraceNext]_vars

\* starts where the binary is to be provisioned, with the answers of the
\* consent prompts recorded; the process ends by itself, no stop is called
ConsentInit == Init /\ ~cfgCustomPath /\ cfgAutoDownload /\ canonical = "absent"

ConsentNext ==
  \/ \E t \in Tasks : StartGateway(t) /\ UNCHANGED stopped
  \/ \E t \in Tasks, pick \in Picks : StartPrompt(t, pick) /\ answer' = pick
  \/ \E t \in Tasks : AccessChecked(t)
  \/ \E t \in Tasks, pick \in Picks : DownloadPrompt(t, pick) /\ answer' = pick
  \/ \E t \in Tasks, o \in ReleaseOutcomes : ReleaseFetched(t, o)
  \/ \E t \in Tasks, ok \in BOOLEAN : AssetDownloaded(t, ok)
  \/ \E t \in Tasks, o \in {"error", "notfound", "canonical", "adopted"} : Extracted(t, o)
  \/ \E t \in Tasks, p \in Pids : Spawn(t, p) /\ UNCHANGED spawned
  \/ \E t \in Tasks : GraceElapsed(t) /\ UNCHANGED spawned
  \/ \E p \in Pids : ChildExit(p)

SpecConsent == ConsentInit /\ [][ConsentNext]_vars

\* the supervisor of an installed binary, with the status queries of the
\* status bar, the tree view and the commands
StatusInit == Init /\ ~cfgCustomPath /\ cfgAutoDownload /\ canonical = "exec"

StatusNext ==
  \/ \E t \in Tasks : StartGateway(t) /\ UNCHANGED stopped
  \/ \E t \in Tasks, pick \in Picks : StartPrompt(t, pick) /\ UNCHANGED answer
  \/ \E t \in Tasks : AccessChecked(t)
  \/ \E t \in Tasks, p \in Pids : Spawn(t, p) /\ UNCHANGED spawned
  \/ \E t \in Tasks : GraceElapsed(t) /\ UNCHANGED spawned
  \/ \E p \in Pids : ChildExit(p)
  \/ StopGateway /\ UNCHANGED stopped
  \/ \E a \in HealthAnswers : GetGatewayStatus(a)
  \/ \E a \in HealthAnswers : TestConnection(a)

SpecStatus == StatusInit /\ [][StatusNext]_vars

\* streamChat reading one response: the events the server sends are the
\* input, the chunks they arrive in are chosen step by step
SseInit ==
  /\ GInit /\ ~cfgCustomPath /\ cfgAutoDownload /\ canonical = "exec"
  /\ DInit /\ LInit
  /\ SessionInit
  /\ events \in SeqsUpTo(Payloads, MaxEvents)
  /\ unread = Wire(events)
  /\ undecoded = <<>>
  /\ buffer = <<>>
  /\ eventData = <<>>
  /\ fragments = <<>>
  /\ sse = "reading"

SpecSse == SseInit /\ [][SseNext]_vars

\* downloadBinary selecting the asset of one release: the list of the
\* release and the machine are the input
ResolveInit ==
  /\ GInit /\ ~cfgCustomPath /\ cfgAutoDownload /\ canonical = "absent"
  /\ CInit /\ LInit
  /\ assets \in SeqsUpTo(AssetNames, MaxAssets)
  /\ platform \in Platforms
  /\ arch \in Archs
  /\ resolved = NoResolution

SpecResolve == ResolveInit /\ [][AssetSelected]_vars

\* the single-file variant alone, with its binary installed or to be
\* downloaded
LocalInit ==
  /\ GInit /\ ~cfgCustomPath /\ cfgAutoDownload /\ canonical = "exec"
  /\ CInit /\ DInit
  /\ LStart
  /\ lexec \in BOOLEAN
  /\ lauto \in BOOLEAN

SpecLocal == LocalInit /\ [][LocalNext]_vars

Next ==
  \/ LifecycleNext \/ ConsentNext \/ GraceNext
  \/ ChatNext \/ SessionNext \/ RequestsNext \/ BufferedNext \/ BlankNext \/ SseNext
  \/ LocalNext
  \/ AssetSelected
  \/ \E a \in HealthAnswers : GetGatewayStatus(a)
  \/ \E a \in HealthAnswers : TestConnection(a)

\* the extension: the supervisor and one chat session
Spec == Init /\ [][Next]_vars

\* ------------------------------------------------------------------ claims
\* the supervisor, under SpecGateway

\* C1: two start() calls in immediate succession, with nothing else
\* happening (no process has exited, failed or been signalled), result in at
\* most one spawned, live child process: the second call observes the pending
\* start and does not spawn.
C1_DoubleStartOneChild ==
  (\A p \in Pids : proc[p] \in {"unborn", "live"}) => Cardinality(Live) <= 1

\* C2: in every reachable state at most one spawned child process is live,
\* and it is the one the handle refers to.
C2_AtMostOneLiveOwned ==
  /\ Cardinality(Live) <= 1
  /\ \A p \in Live : gatewayProcess = p

\* C3: a process is spawned only by a start() whose consent was granted (a
\* persisted 'always' or an allowing answer in that invocation), and a start()
\* that leaves its prompt without a grant returns false, spawns nothing and
\* leaves the handle unchanged.
C3_SpawnOnlyWithConsent ==
  [][ /\ \A p \in Pids : proc[p] = "unborn" /\ proc'[p] # "unborn" =>
             \E t \in Tasks : spc[t] = "mkdir" /\ spc'[t] = "grace" /\ granted[t]
      /\ \A t \in Tasks : spc[t] = "prompt" /\ spc'[t] # "prompt" /\ ~granted'[t] =>
             /\ spc'[t] = "idle" /\ ret' = "false"
             /\ gatewayProcess' = gatewayProcess /\ proc' = proc ]_vars

\* C3 witness: a process was spawned by a start() allowed once in its prompt
C3_Witness ==
  \E t \in Tasks : spc[t] = "grace" /\ granted[t] /\ ~startConsent /\ gatewayProcess # 0

\* the chat session, under SpecChat

\* the assistant entries of the history that send r pushed
AssistantBy(h, r) == {i \in DOMAIN h : h[i].role = "assistant" /\ h[i].by = r}

\* this step posts a message of one of the types for send r
Posts(r, types) == lastPost'.req = r /\ lastPost'.type \in types

\* C4: a streaming send during which a cancel was handled appends no
\* assistant entry, and none of its fragments is posted after the cancel.
C4_CancelEndsStreamingSend ==
  [][\A r \in Reqs : streaming[r] /\ cancelAt[r] # "none" =>
        /\ ~Posts(r, {"delta", "done"})
        /\ AssistantBy(history', r) = {} ]_vars

\* a streaming request in flight is the one the current controller belongs
\* to: a cancel handled after the request was issued aborts it, and two
\* streaming requests are never in flight together
InFlightStreamIsCurrent == \A r \in Reqs : Abortable(r) => currentController = r

\* C5: at most one chat request of the session is in flight.
C5_SingleFlight == Cardinality(InFlight) <= 1

C7_StreamCommitsConcatenation ==
  [][\A r \in Reqs :
       /\ rpc[r] = "read" /\ Posts(r, {"done"}) =>
            history' = Append(history, [role |-> "assistant",
                                        content |-> Concat(emitted[r]), by |-> r])
       /\ Cardinality(AssistantBy(history', r)) <= 1 ]_vars

\* C7 witness: a stream of two fragments ended and its text was committed
C7_Witness ==
  /\ lastPost.type = "done"
  /\ history[Len(history)] =
       [role |-> "assistant", content |-> <<"a", "b", "c">>, by |-> lastPost.req]

\* C8: no error message is posted for a request that ended because of
\* cancel().
C8_CancelIsSilent == ~(lastPost.type = "error" /\ lastPost.text = <<"cancel">>)

\* C9: a request that was in flight, streaming or buffered, when a cancel was
\* handled appends no assistant entry.
C9_CancelAbortsAnyRequest ==
  [][\A r \in Reqs : cancelAt[r] = "inflight" =>
        /\ ~Posts(r, {"done", "resp"})
        /\ AssistantBy(history', r) = {} ]_vars

\* the message reports a failed send: response not OK or without body,
\* transport error, timeout
Failure(post) ==
  post.type = "error" /\ post.text \in {<<"http">>, <<"transport">>, <<"timeout">>}

\* C10: the step in which a send fails leaves the history as it was, with no
\* assistant entry of that send in it, and a send that has ended adds no
\* assistant entry afterwards.
C10_FailureKeepsHistory ==
  [][\A r \in Reqs :
       /\ rpc[r] # "done" /\ Posts(r, {"error"}) /\ Failure(lastPost') =>
            history' = history /\ AssistantBy(history', r) = {}
       /\ rpc[r] = "done" => AssistantBy(history', r) \subseteq AssistantBy(history, r) ]_vars

\* C10 witness: after a completed exchange, the next send got a response that
\* was not OK
C10_Witness ==
  /\ lastPost = Post("error", 2, <<"http">>)
  /\ Len(history) = 4 /\ history[3].role = "assistant" /\ history[4].role = "user"

\* C11: immediately after a clear is handled, whatever the session was doing,
\* the history is the single system entry carrying the system prompt of the
\* current configuration.
C11_ClearReseeds ==
  cleared => history = <<[role |-> "system", content |-> systemPrompt, by |-> 0]>>

\* C11 witness: a clear was handled while a request was in flight, after the
\* system prompt had been changed and a user entry pushed
C11_Witness ==
  /\ cleared /\ InFlight # {}
  /\ systemPrompt # SystemPrompt /\ history[1].content = systemPrompt

\* the supervisor is Running: the handle refers to a live process
Running == gatewayProcess # 0 /\ proc[gatewayProcess] = "live"

\* C12: while the supervisor is Running no start() goes on to the consent
\* prompt, the executability check, the download or the spawn, and a start()
\* that returns on entry returns true and changes neither handle, processes
\* nor consents.
C12_StartWhileRunningNoop ==
  [][ Running =>
        /\ \A t \in Tasks : spc[t] = "idle" => spc'[t] = "idle"
        /\ (spc' = spc /\ ret' # "none") =>
              /\ ret' = "true"
              /\ gatewayProcess' = gatewayProcess /\ proc' = proc
              /\ startConsent' = startConsent /\ downloadConsent' = downloadConsent
              /\ canonical' = canonical ]_vars

\* C12 witness: the only process ever spawned is live and owned, the start
\* that spawned it still waits for its grace period, and another start has
\* returned true
C12_Witness ==
  /\ Running /\ ret = "true"
  /\ \A p \in Pids : p # gatewayProcess => proc[p] = "unborn"
  /\ \E t \in Tasks : spc[t] = "grace"

\* C13: stop() with a live owned handle signals that process and clears the
\* handle; with no live owned handle it signals nothing and changes nothing;
\* a second stop() leaves the state the first one left; and every step that
\* signals a process is such a stop().
C13_StopIdempotent ==
  [][ LET once == StopEffect(gatewayProcess, proc)
          twice == StopEffect(once[1], once[2])
      IN  /\ twice = once
          /\ Running => once[1] = 0 /\ once[2][gatewayProcess] = "signalled"
          /\ ~isGatewayRunning => once = <<gatewayProcess, proc>>
          /\ (\E p \in Pids : proc[p] # "signalled" /\ proc'[p] = "signalled") =>
                Running /\ <<gatewayProcess', proc'>> = once ]_vars

\* C13 witness: a stop() has signalled the process it owned and cleared the
\* handle, and a start() has spawned the next process since
C13_Witness ==
  /\ \E p \in Pids : proc[p] = "signalled"
  /\ \E p \in Pids : proc[p] = "live" /\ gatewayProcess = p

Provisioning == <<"dlprompt", "release", "download", "extract">>

\* position pc is one of downloadBinary
InProvisioning(pc) == \E i \in DOMAIN Provisioning : Provisioning[i] = pc

\* C15: a start() that leaves the provisioning without having completed its
\* last step returns false and spawns nothing; the steps are taken in order
\* and only the completed extraction leads on to the spawn; and a start()
\* that finds the binary missing, with auto-download on, enters the
\* provisioning at its first step (the consent check), whatever earlier
\* attempts did.
C15_ProvisioningFailureAborts ==
  [][ \A t \in Tasks :
        /\ InProvisioning(spc[t]) /\ spc'[t] = "idle" =>
              /\ ret' = "false"
              /\ proc' = proc /\ gatewayProcess' = gatewayProcess
        /\ InProvisioning(spc[t]) /\ spc'[t] # spc[t] /\ spc'[t] # "idle" =>
              \/ \E i \in 1..3 : spc[t] = Provisioning[i] /\ spc'[t] = Provisioning[i + 1]
              \/ spc[t] = "extract" /\ spc'[t] = "mkdir"
        /\ spc[t] = "access" /\ spc'[t] # "access" /\ ~ResolvedExec /\ cfgAutoDownload =>
              spc'[t] = (IF downloadConsent THEN "release" ELSE "dlprompt")
        /\ ~InProvisioning(spc[t]) /\ InProvisioning(spc'[t]) =>
              spc[t] = "access" /\ ~ResolvedExec ]_vars

\* C15 witness: a start() allowed once went into the provisioning with the
\* download allowed always, and every start() has returned with nothing
\* spawned and the binary still missing: the provisioning failed
C15_Witness ==
  /\ downloadConsent /\ ~startConsent /\ canonical = "absent" /\ ~cfgCustomPath
  /\ \A p \in Pids : proc[p] = "unborn"
  /\ \A t \in Tasks : spc[t] = "idle"
  /\ ret = "false"

\* C16: every path start() spawns is executable: it has passed the
\* execute-permission check of that start(), also after the provisioning.
C16_SpawnOnlyChecked ==
  [][ \A p \in Pids : proc[p] = "unborn" /\ proc'[p] # "unborn" => ResolvedExec ]_vars

\* the supervisor and its status queries, under SpecStatus

\* C17: a status whose probe was answered with a 2xx code reports running,
\* whatever the handle; a status whose probe got no answer reports the
\* liveness of the tracked handle.
C17_StatusProbeThenHandle ==
  status.called =>
    /\ Resolves(status) => status.running
    /\ ~status.answered => (status.running <=> isGatewayRunning)

\* C17 witness: a gateway the supervisor does not own answered the probe and
\* is reported as running
C17_Witness ==
  /\ status.called /\ Resolves(status) /\ status.running
  /\ gatewayProcess = 0 /\ Live = {}

\* C18: a status whose probe was answered with 503 reports not running,
\* whatever the handle.
C18_DegradedIsNotRunning ==
  status.called /\ status.answered /\ status.code = 503 => ~status.running

\* C27: the connection test puts every outcome of its probe into one of
\* three results: a 2xx answer is healthy (it returns true), an answer with
\* any other status is degraded (it returns false and reports the status
\* code), no answer (connection error, timeout) is unreachable (it returns
\* false and reports that the gateway is not reachable).
C27_HealthClassified ==
  health.called =>
    /\ health.answered /\ health.code >= 200 /\ health.code < 300 =>
         health.returned /\ health.shown = "OK"
    /\ health.answered /\ ~(health.code >= 200 /\ health.code < 300) =>
         ~health.returned /\ health.shown = "responded" /\ health.reported = health.code
    /\ ~health.answered => ~health.returned /\ health.shown = "not reachable"

\* C27 witness: the process the supervisor owns is alive and answered 503
C27_Witness ==
  /\ health.called /\ health.answered /\ health.code = 503
  /\ ~health.returned /\ health.shown = "responded"
  /\ isGatewayRunning

\* the read loop of streamChat, under SpecSse

\* the bytes of the body read so far
Consumed == SubSeq(Wire(events), 1, Len(Wire(events)) - Len(unread))

\* the fragments emitted when the bytes bs arrive as one chunk
OneChunk(bs) == Deliver(Feed(<<>>, <<>>, Decode(<<>>, bs).chars).dispatched)

RECURSIVE BeforeSentinel(_)
\* the events that precede the first sentinel
BeforeSentinel(evs) ==
  IF evs = <<>> \/ Head(evs) = Sentinel THEN <<>>
  ELSE <<Head(evs)>> \o BeforeSentinel(Tail(evs))

\* C20: when the stream has ended, the fragments emitted are those of the
\* events before the sentinel: none for the sentinel, none for an event
\* after it.
C20_SentinelTerminates ==
  sse = "ended" => fragments = OneChunk(Wire(BeforeSentinel(events)))

\* the text the bytes bs encode
Text(bs) == Utf8(bs).chars

\* the fragments C21 gives the event with payload p: the delta content of a
\* JSON object that has one, nothing for other JSON, the raw text for a
\* payload that is not JSON and not empty; the sentinel is the matter of C20
FragmentsOf(p) ==
  IF p = Sentinel \/ p = <<>> \/ p = <<"5">> THEN <<>>
  ELSE IF Head(p) = "{"
    THEN (IF Len(p) > 2 THEN <<Text(SubSeq(p, 2, Len(p) - 1))>> ELSE <<>>)
    ELSE <<Text(p)>>

RECURSIVE FragmentsOfAll(_)
FragmentsOfAll(evs) ==
  IF evs = <<>> THEN <<>> ELSE FragmentsOf(Head(evs)) \o FragmentsOfAll(Tail(evs))

\* C21: when the stream has ended, the fragments emitted are, event by
\* event and in order, the delta content of each event whose data is JSON
\* with a content that is not empty, and the raw data of each event whose
\* data is not JSON and not empty: at most one fragment for an event.
C21_FragmentPerEvent ==
  sse = "ended" => fragments = FragmentsOfAll(events)

\* C21 witness: a JSON value without delta content emitted nothing and a raw
\* text was emitted as it is
C21_Witness ==
  /\ sse = "ended"
  /\ events = << <<"5">>, <<"x">> >>
  /\ fragments = << <<"x">> >>

\* the buffered path, under SpecBuffered

\* C22: a buffered 2xx response whose body has the shape
\* {choices: [{message: {content: c}}]} with c a string, the empty string
\* included, posts exactly c and adds one assistant entry with content c; a
\* body that is a string is used verbatim; only a body of neither shape is
\* serialized whole.
C22_BufferedContent ==
  [][lastPost'.type = "resp" =>
       LET data == lastPost'.data
           c == IF data.kind = "object" THEN Stringify(data) ELSE data.content
       IN  /\ lastPost'.text = c
           /\ history' = Append(history, [role |-> "assistant", content |-> c,
                                           by |-> lastPost'.req])]_vars

\* the requests of the chat session, under SpecRequests

\* C23: a chat request in flight when its deadline expires is aborted as a
\* cancel aborts it: the send returns with an error, nothing is committed,
\* and from then on no fragment is posted and no assistant entry is pushed
\* for it; a request that has ended has disarmed its timer.
C23_DeadlineAborts ==
  [][\A r \in Reqs :
       /\ timer'[r] => rpc'[r] \in {"fetch", "read"}
       /\ lastPost' = Post("error", r, <<"timeout">>) =>
            /\ r \in InFlight
            /\ rpc'[r] = "done" /\ acc'[r] = <<>>
            /\ history' = history
       /\ rpc[r] = "done" =>
            /\ rpc'[r] = "done"
            /\ lastPost'.req # r
            /\ Len(history') > Len(history) => history'[Len(history')].by # r]_vars

\* C23 witness: the deadline of a streaming request (the controller is its
\* own) expired while a later send was suspended
C23_Witness ==
  /\ lastPost = Post("error", 1, <<"timeout">>)
  /\ currentController = 1
  /\ rpc[1] = "done" /\ ~timer[1]
  /\ rpc[2] = "secrets"

\* the chat session, under SpecChat

\* C24: the request a send issues carries the whole history in order, and
\* its last message is the user message that same send appended, whatever
\* was handled while the send was suspended before issuing it.
C24_RequestEndsWithOwnMessage ==
  issued.req # 0 =>
    /\ issued.messages = history
    /\ issued.messages # <<>>
    /\ LET last == issued.messages[Len(issued.messages)]
       IN  last.role = "user" /\ last.by = issued.req

\* the selection of the release asset, under SpecResolve

\* the names of the list that contain the OS label of the platform and an
\* alias of the architecture, letter case aside
Matching ==
  {assets[i] : i \in {j \in DOMAIN assets :
      /\ Includes(ToLowerCase(assets[j]), OsLabel(platform))
      /\ \E al \in ArchLabels(arch) : Includes(ToLowerCase(assets[j]), al)}}

IsTarGz(name) == EndsWith(ToLowerCase(name), TarGz)
IsZip(name) == EndsWith(ToLowerCase(name), Zip)

\* C25: among the assets that match the OS and the architecture the one
\* selected is of the best kind the list offers: a .tar.gz when a matching
\* .tar.gz exists, else a .zip when a matching .zip exists, in whatever order
\* the list gives them.
C25_BestKindSelected ==
  resolved.outcome = "ok" =>
    /\ resolved.asset \in Matching
    /\ (\E m \in Matching : IsTarGz(m)) => IsTarGz(resolved.asset)
    /\ (\A m \in Matching : ~IsTarGz(m)) /\ (\E m \in Matching : IsZip(m))
         => IsZip(resolved.asset)

\* C25 witness: the .tar.gz is last in the list, after the .zip and the raw
\* file
C25_Witness ==
  /\ platform = "linux" /\ arch = "x64"
  /\ assets = << <<"gw", "linux", "amd", "64", ".zip">>,
                 <<"gw", "linux", "amd", "64">>,
                 <<"gw", "linux", "amd", "64", ".tar", ".gz">> >>
  /\ resolved = [outcome |-> "ok", asset |-> <<"gw", "linux", "amd", "64", ".tar", ".gz">>]

\* C26 as stated: only an asset whose name contains the OS label and an
\* alias of the architecture is selected, and the selection fails for want
\* of a matching asset exactly when no asset of the list matches.
C26_NoMatchExactlyWhenNoneMatches ==
  resolved # NoResolution =>
    /\ resolved.outcome = "ok" => resolved.asset \in Matching
    /\ resolved.outcome = "nomatch" <=> Matching = {}

\* C26 as amended: the same for a release that lists assets; a release that
\* lists none fails with the error of its own.
C26_NoMatchWhenListedAndNoneMatches ==
  resolved # NoResolution =>
    /\ resolved.outcome = "ok" => resolved.asset \in Matching
    /\ resolved.outcome = "nomatch" <=> (assets # <<>> /\ Matching = {})
    /\ resolved.outcome = "noassets" <=> assets = <<>>

\* C26 witness: on linux/x64 the list of the Windows .zip and the Linux
\* .tar.gz resolves to the latter
C26_Witness ==
  /\ platform = "linux" /\ arch = "x64"
  /\ assets = << <<"gw", "windows", "amd", "64", ".zip">>,
                 <<"gw", "linux", "amd", "64", ".tar", ".gz">> >>
  /\ resolved = [outcome |-> "ok", asset |-> <<"gw", "linux", "amd", "64", ".tar", ".gz">>]

\* the consent prompts, under SpecConsent

\* C28: a start goes on to the release query only with the consent to
\* download: persisted when the binary was found missing, or given to the
\* download prompt of that start by an allowing answer; the consent to
\* start does not count. The download follows the release query only.
C28_DownloadNeedsOwnConsent ==
  [][\A t \in Tasks :
       /\ spc[t] # "release" /\ spc'[t] = "release" =>
            \/ spc[t] = "access" /\ downloadConsent
            \/ spc[t] = "dlprompt" /\ Allowed(answer')
       /\ spc[t] # "download" /\ spc'[t] = "download" => spc[t] = "release"]_vars

\* C28 witness: the consent to start is persisted and the start, which
\* found the binary missing, shows the download prompt all the same
C28_Witness ==
  /\ startConsent /\ ~downloadConsent
  /\ spc[1] = "dlprompt" /\ granted[1] /\ answer = NoAnswer
  /\ \A t \in Tasks \ {1} : spc[t] = "idle"

\* C29: 'Always allow' persists the consent of the kind asked for, and any
\* other answer leaves it as it was; a persisted consent stays, and an
\* authorization of its kind is then granted without a prompt, while
\* without it the authorization prompts.
C29_AlwaysPersistsOnceDoesNot ==
  [][\A t \in Tasks :
       /\ spc[t] = "prompt" /\ spc'[t] # "prompt" =>
            startConsent' = (startConsent \/ answer' = "Always allow")
       /\ spc[t] = "dlprompt" /\ spc'[t] # "dlprompt" =>
            downloadConsent' = (downloadConsent \/ answer' = "Always allow")
       /\ spc[t] = "idle" /\ spc'[t] # "idle" =>
            IF startConsent THEN spc'[t] = "access" /\ granted'[t]
                            ELSE spc'[t] = "prompt"
       /\ spc[t] = "access" /\ spc'[t] \in {"release", "dlprompt"} =>
            (spc'[t] = "release" <=> downloadConsent)
       /\ startConsent => startConsent'
       /\ downloadConsent => downloadConsent']_vars

\* C29 witness: with the consent to start persisted a start is authorized
\* without a prompt
C29_Witness ==
  /\ startConsent
  /\ spc[1] = "access" /\ granted[1] /\ answer = NoAnswer /\ ret = "none"
  /\ \A t \in Tasks \ {1} : spc[t] = "idle"
  /\ \A p \in Pids : proc[p] = "unborn"

\* the grace interval, under SpecGrace

\* C30: start() returns true exactly when the process it spawned is alive at
\* the end of its grace interval, whatever else was handled in the interval;
\* when that process has exited or failed to spawn, start() returns false
\* and the supervisor is stopped.
C30_GraceSamplesOwnProcess ==
  [][\A t \in Tasks : spc[t] = "grace" /\ spc'[t] = "idle" =>
       /\ ret' = "true" <=> proc[spawned[t]] = "live"
       /\ proc[spawned[t]] \in {"exited", "failed"} =>
            ret' = "false" /\ ~isGatewayRunning']_vars

\* the handle and the events of earlier processes, under SpecGateway

\* C31: the exit (or error) event of a process that stop() signalled and that
\* is no longer the owned one, a newer process having been started since,
\* leaves the handle of the newer process unchanged.
C31_StaleExitKeepsHandle ==
  [][\A p \in Pids :
       /\ proc[p] = "signalled" /\ proc'[p] = "exited"
       /\ gatewayProcess \notin {0, p}
       => gatewayProcess' = gatewayProcess]_vars

\* pending starts and stop, under SpecGrace

\* C32: from the return of a stop() to the next invocation of start() no
\* child process is running: a start() that was suspended before its spawn
\* when stop() ran does not go on to spawn.
C32_StopCancelsPendingStart == stopped => Live = {}

\* the installation, under SpecGateway

\* C33: when the install run by a start() returns success, the path that
\* start() resolves next (the configured binaryPath when set, else the
\* default managed path) exists and is executable, also when the installer
\* adopted an entry it found by the name prefix.
C33_InstalledPathIsResolved ==
  [][\A t \in Tasks : spc[t] = "extract" /\ spc'[t] = "mkdir" => ResolvedExec']_vars

\* clear and the requests in flight, under SpecChat

\* C34: after a clear the history stays the single system entry until the
\* next send: a request that was in flight when the clear was handled
\* appends nothing when it completes. From the single system entry the
\* history grows only by the user entry of a send.
C34_ClearedHistoryStays ==
  [][Len(history) = 1 /\ history' # history /\ ~cleared' =>
       /\ Len(history') = 2
       /\ history'[1] = history[1]
       /\ history'[2].role = "user"]_vars

\* C35: every assistant entry of the history is immediately preceded by the
\* user entry of the send that produced it.
C35_AssistantFollowsItsUser ==
  \A i \in DOMAIN history :
    history[i].role = "assistant" =>
      /\ i > 1
      /\ history[i - 1].role = "user"
      /\ history[i - 1].by = history[i].by

\* aborts and the requests they end, under SpecRequests

\* this step ends the request of send r
Ends(r) == r \in InFlight /\ rpc'[r] = "done"

\* C36: an abort raised for one request (its timeout, a cancel handled while
\* it was the current request, its supersession by a newer send) ends no
\* other request: a step ends at most one request, the message it posts is
\* that of the request it ends, the step is an abort only when the request is
\* a streaming one whose controller is the current one (cancel, supersession)
\* or whose own timeout is armed, and every other request in flight goes on.
C36_AbortEndsOwnRequest ==
  [][\A r \in Reqs : Ends(r) =>
       /\ lastPost'.req = r
       /\ \A q \in Reqs \ {r} : q \in InFlight => rpc'[q] = rpc[q]
       /\ lastPost'.text \in {<<"cancel">>, <<"superseded">>} =>
            streaming[r] /\ currentController = r
       /\ lastPost'.text = <<"timeout">> /\ streaming[r] => timer[r]]_vars

\* C36 witness: a cancel has ended the streaming request of the first send
\* while the buffered request of the second send is in flight and goes on
C36_Witness ==
  /\ lastPost = Post("error", 1, <<"cancel">>)
  /\ rpc[1] = "done" /\ rpc[2] = "post"

\* blank sends, under SpecBlank

\* C37: a send whose text is empty or only whitespace is ignored: it leaves
\* the history unchanged, issues no request, posts no message and aborts no
\* request in flight; every user entry pushed carries a text that is not
\* blank.
C37_BlankSendIgnored ==
  [][/\ blank' =>
          /\ history' = history
          /\ issued' = NoRequest
          /\ lastPost' = NoPost
          /\ rpc' = rpc /\ timer' = timer /\ acc' = acc /\ emitted' = emitted
          /\ currentController' = currentController
     /\ Len(history') > Len(history) /\ history'[Len(history')].role = "user" =>
          Trim(history'[Len(history')].content) # <<>>]_vars

\* C37 witness: a blank send was handled while a streaming request, whose
\* controller is the current one, was being read
C37_Witness ==
  /\ blank
  /\ Abortable(currentController) /\ rpc[currentController] = "read"
  /\ Len(history) = 2

\* the single-file variant, under SpecLocal

\* C38: in the single-file variant, once the child process has exited on its
\* own (not through stop) the supervisor counts as stopped: a
\* startLocalGateway() does not report that the gateway is already running
\* but goes on to spawn a new process.
C38_ExitedChildCountsAsStopped ==
  [][shown' = "already running" =>
       ~(child # 0 /\ children[child].st = "exited" /\ ~children[child].killed)]_vars

\* deactivation, under SpecLifecycle

\* C39: when the extension is deactivated every child process the
\* supervisor has spawned and that has not exited is sent a termination
\* signal, and no process is spawned after the deactivation: a start() that
\* was pending at that moment does not spawn.
C39_DeactivationEndsAll ==
  [][/\ ~deactivated /\ deactivated' =>
          \A p \in Pids : proc[p] = "live" => proc'[p] = "signalled"
     /\ deactivated =>
          \A p \in Pids : proc[p] = "unborn" => proc'[p] = "unborn"]_vars
====
